---- MODULE Spec2Model ----
(***************************************************************************)
(* The call-session relay of main.py: handle_media_stream with its two     *)
(* coroutines receive_from_twilio (Inbound Pump) and send_to_twilio         *)
(* (Outbound Pump), the interruption handler handle_speech_started_event    *)
(* and send_mark.  The two coroutines run under asyncio.gather: a coroutine *)
(* runs without interruption up to its next await, so every action below    *)
(* is the code between two suspension points.  A send is written to the     *)
(* connection before the coroutine suspends on it.                          *)
(***************************************************************************)
EXTENDS Integers, Sequences, FiniteSets, TLC

\* ------------------------------------------------------------ bounds
MaxIn == 3          \* telephony events processed in one behaviour
MaxOut == 3         \* AI-backend events processed in one behaviour
MaxDone == 2        \* response.done events processed in one behaviour
MaxItems == 2       \* output items over all response.done events of one behaviour
MaxLifeIn == 2      \* telephony events processed in one behaviour of the call lifecycle
MaxLifeOut == 2     \* AI-backend events processed in one behaviour of the call lifecycle
MaxToolIn == 2      \* telephony media events processed in one behaviour with tool calls
MaxForwardIn == 3   \* telephony events processed in one behaviour of the media forwarding
MaxRec == 4         \* calls made on one AudioRecorder
MaxTrOut == 4       \* AI-backend events processed in one behaviour of the transcript
MaxTickets == 2     \* calls of TicketManager.create_ticket
MaxKCalls == 2      \* calls of KayakoAPIClient.create_ticket

\* ------------------------------------------------------------ inputs
None == "None"                  \* Python None for identifiers
NoneTs == -1                    \* Python None for response_start_timestamp_twilio
StreamSids == {"A"}              \* stream ids of the free-running call
ScenarioSids == {"A", "B"}      \* stream ids of the scripted call
ItemIds == {"X", "Y"}
Timestamps == {0, 20, 40}
Payloads == {"p"}
MediaPayloads == {"p", "q"}     \* payloads of the media forwarding
MarkNames == {"responsePart", "other"}
ArgValues == {None, "", "a", "b"} \* the value of the tool's argument; None: key missing
Contents == {"raises", None, "", "summary"} \* how generate_summary ends: raises or message content
Texts == {"hello", " "}         \* transcript text of an assistant message
Roles == {"user", "assistant"}
RecTimes == {0, 1}              \* what datetime.now() returns; the wall clock may step back
RecPayloads == {"YQ==", "Yg==", "a"} \* audio payloads handed to the recorder
IoOutcomes == {"ok", "wav_fails", "metadata_fails"} \* file system while close() writes
MalformedTelephony ==           \* telephony messages that are not a well-shaped event
    {"invalid_json", "no_event", "media_no_timestamp", "media_no_payload", "start_no_streamSid"}
MalformedBackend ==             \* backend messages that are not a well-shaped event
    {"invalid_json", "no_type", "undecodable_delta"}

VARIABLES
    stream_sid,                      \* main.py:262
    latest_media_timestamp,          \* main.py:263
    last_assistant_item,             \* main.py:264
    mark_queue,                      \* main.py:265
    response_start_timestamp_twilio, \* main.py:266
    openai_open,                     \* openai_ws.open
    in_pc,                           \* position of receive_from_twilio
    out_pc,                          \* position of send_to_twilio
    out_event,                       \* the backend event send_to_twilio is handling
    openai_out,                      \* commands sent on openai_ws, in order
    twilio_out,                      \* commands sent on the telephony websocket, in order
    n_in,                            \* telephony events processed
    n_out,                           \* backend events processed
    \* history variables, read by no action guard of the program
    last_in,                         \* the last telephony event processed
    tw_clock,                        \* timestamp of the last media event of the stream
    marks_pushed,                    \* marks appended to mark_queue
    marks_popped,                    \* mark acknowledgments that removed an entry
    empty_acks,                      \* mark acknowledgments that found the queue empty
    interrupted,                     \* an interruption cleared mark_queue
    ss_pre,                          \* session state when the current/last speech-started was handled
    scenario,                        \* the scripted events of a scenario run (none in Spec)
    \* conversation state and tool dispatch (response.done)
    user_email,                      \* conversation.user_email
    reason_for_calling,              \* conversation.reason_for_calling
    transcript,                      \* conversation.transcript
    current_assistant_response,      \* conversation.current_assistant_response
    kb_initialized,                  \* kb_search_engine.initialized
    batch,                           \* response['response']['output'] of the response.done in hand
    fc_idx,                          \* index of the output item the first loop is at
    \* history variables
    batch_start,                     \* Len(openai_out) when the response.done was taken
    raised,                          \* call ids whose handling raised inside the try block
    n_items,                         \* output items received in response.done events so far
    kb_last,                         \* how the last search_and_summarize call went
    \* the lifecycle of the call
    telephony_open,                  \* the telephony websocket is connected
    handler_pc,                      \* position of handle_media_stream: "gather" or "exited"
    finalizer_log,                   \* history: the create_ticket calls of the stop branch
    \* AudioRecorder (src/audio/recorder.py)
    segments,                        \* self.segments
    wav_file,                        \* conversation.wav of the call directory
    metadata_written,                \* recording_info.json of the call directory exists
    close_result,                    \* what the last close() returned
    pre_close,                       \* history: self.segments when the last close() was called
    rec_call,                        \* history: the last recorder call and its file-system outcome
    n_rec,                           \* history: recorder calls made
    \* TicketManager (src/tickets/ticket_manager.py)
    api_calls,                       \* calls made on self.api, in order
    create_result,                   \* how the last create_ticket ended
    n_tickets,                       \* history: create_ticket calls made
    \* KayakoAPIClient.create_ticket (src/api/kayako/client.py)
    kticket,                         \* the Ticket object the caller passed
    kattempt,                        \* the attempt in progress, 0 outside a call
    kposts,                          \* the POSTs to /cases of the current or last call
    kresult,                         \* how the last call ended
    kclass,                          \* history: what get_classification last did
    ksession,                        \* auth_manager.session_id is set
    n_kcalls,                        \* history: create_ticket calls begun
    \* KayakoAPIClient, the messages (src/api/kayako/client.py)
    message_cache,                   \* self.message_cache, oldest entry first
    kmessages,                       \* the messages the Kayako server holds
    next_message_id,                 \* the id the server gives the next message
    get_pending,                     \* the response a get_messages call is awaiting
    msg_call,                        \* history: the last call that ended, and how
    n_msgcalls                       \* history: calls on messages that ended

session == <<stream_sid, latest_media_timestamp, last_assistant_item, mark_queue,
             response_start_timestamp_twilio>>
pumps == <<openai_open, in_pc, out_pc, out_event>>
wires == <<openai_out, twilio_out>>
hist == <<last_in, tw_clock, marks_pushed, marks_popped, empty_acks, interrupted, ss_pre>>
NoScenario == [tin |-> <<>>, tout |-> <<>>]
conversation == <<user_email, reason_for_calling, transcript, current_assistant_response>>
tools == <<conversation, kb_initialized, batch, fc_idx, batch_start, raised, n_items,
           kb_last>>
life == <<telephony_open, handler_pc, finalizer_log>>
recorder == <<segments, wav_file, metadata_written, close_result, pre_close, rec_call,
              n_rec>>
ticketing == <<api_calls, create_result, n_tickets>>
kayako == <<kticket, kattempt, kposts, kresult, kclass, ksession, n_kcalls>>
messaging == <<message_cache, kmessages, next_message_id, get_pending, msg_call, n_msgcalls>>
client == <<kayako, messaging>>
collab == <<recorder, ticketing, client>>
relay == <<session, pumps, wires, n_in, n_out, hist, scenario, tools, life>>
vars == <<relay, collab>>

NoEvent == [type |-> "none"]
NoFile == [written |-> FALSE, frames |-> <<>>]
NotClosed == [returned |-> "nothing", utterances |-> <<>>, start_time |-> <<>>,
              end_time |-> <<>>]
NoRecorderCall == [op |-> "none", io |-> "ok", payload |-> ""]
NoArg == [given |-> FALSE, s |-> <<>>]     \* an optional argument left at None
NotCalled == [outcome |-> "nothing", message |-> "", email |-> NoArg, phone |-> NoArg,
              api |-> "none"]
NoSearch == [search |-> "none", score |-> 0, content |-> None]
NoId == 0                       \* Python None for priority_id, type_id and best_priority
NoTicket == [contents |-> "", priority_id |-> NoId, type_id |-> NoId]
NoResult == [outcome |-> "nothing", attempts |-> 0, caller_priority_id |-> NoId,
             caller_type_id |-> NoId]
NotClassified == [raised |-> FALSE, priority_id |-> NoId, type_id |-> NoId]
NoGet == [conversation_id |-> NoId, page |-> 0, ids |-> {}]
NoMessageCall == [op |-> "none", conversation_id |-> NoId, outcome |-> "none", ids |-> {}]
NoPre == [handled |-> FALSE, done |-> FALSE, item |-> None, rst |-> NoneTs,
          latest |-> 0, marks |-> 0]

Connected ==
    /\ stream_sid = None
    /\ latest_media_timestamp = 0
    /\ last_assistant_item = None
    /\ mark_queue = <<>>
    /\ response_start_timestamp_twilio = NoneTs
    /\ openai_open = TRUE
    /\ in_pc = "recv"
    /\ out_pc = "recv"
    /\ out_event = NoEvent
    /\ openai_out = <<>>
    /\ twilio_out = <<>>
    /\ n_in = 0
    /\ n_out = 0
    /\ last_in = NoEvent
    /\ tw_clock = 0
    /\ marks_pushed = 0
    /\ marks_popped = 0
    /\ empty_acks = 0
    /\ interrupted = FALSE
    /\ ss_pre = NoPre
    /\ user_email = None
    /\ reason_for_calling = None
    /\ transcript = <<>>
    /\ current_assistant_response = <<>>
    /\ kb_initialized = FALSE
    /\ batch = <<>>
    /\ fc_idx = 1
    /\ batch_start = 0
    /\ raised = {}
    /\ n_items = 0
    /\ kb_last = NoSearch
    /\ telephony_open = TRUE
    /\ handler_pc = "gather"
    /\ finalizer_log = <<>>
    /\ segments = <<>>
    /\ wav_file = NoFile
    /\ metadata_written = FALSE
    /\ close_result = NotClosed
    /\ pre_close = <<>>
    /\ rec_call = NoRecorderCall
    /\ n_rec = 0
    /\ api_calls = <<>>
    /\ create_result = NotCalled
    /\ n_tickets = 0
    /\ kticket = NoTicket
    /\ kattempt = 0
    /\ kposts = <<>>
    /\ kresult = NoResult
    /\ kclass = NotClassified
    /\ ksession = FALSE
    /\ n_kcalls = 0
    /\ message_cache = <<>>
    /\ kmessages = {[id |-> 1, conversation_id |-> 1]}
    /\ next_message_id = 2
    /\ get_pending = NoGet
    /\ msg_call = NoMessageCall
    /\ n_msgcalls = 0

Init == Connected /\ scenario = NoScenario

\* ------------------------------------------------------------ commands
AudioAppendEmpty(payload) == [type |-> "input_audio_buffer.append", audio |-> ""]

AudioAppend(payload) == [type |-> "input_audio_buffer.append", audio |-> payload]
TruncateEvent(item, elapsed) ==
    [type |-> "conversation.item.truncate", item_id |-> item,
     content_index |-> 0, audio_end_ms |-> elapsed]
TwilioMedia(sid, payload) == [event |-> "media", streamSid |-> sid, payload |-> payload]
TwilioMark(sid) == [event |-> "mark", streamSid |-> sid, name |-> "responsePart"]
TwilioClearNoSid(sid) == [event |-> "clear", streamSid |-> None]

TwilioClear(sid) == [event |-> "clear", streamSid |-> sid]

\* ------------------------------------------------------------ Inbound Pump
InRecv == in_pc = "recv"

MediaNotRecorded(ts, payload) ==
    /\ InRecv
    /\ ts >= tw_clock
    /\ n_in' = n_in + 1
    /\ last_in' = [type |-> "media", ts |-> ts, open |-> openai_open, payload |-> payload]
    /\ tw_clock' = ts
    /\ IF openai_open
       THEN openai_out' = Append(openai_out, [type |-> "input_audio_buffer.append",
                                              audio |-> payload])
       ELSE UNCHANGED openai_out
    /\ UNCHANGED <<scenario, collab, life, tools, stream_sid, latest_media_timestamp, last_assistant_item,
                   mark_queue, response_start_timestamp_twilio, pumps, twilio_out, n_out,
                   marks_pushed, marks_popped, empty_acks, interrupted, ss_pre>>

\* data['event'] == 'media': taken only while openai_ws.open; otherwise the event
\* matches no later branch and is dropped.
Media(ts, payload) ==
    /\ InRecv
    /\ ts >= tw_clock
    /\ n_in' = n_in + 1
    /\ last_in' = [type |-> "media", ts |-> ts, open |-> openai_open, payload |-> payload]
    /\ tw_clock' = ts
    /\ IF openai_open
       THEN /\ latest_media_timestamp' = ts
            /\ openai_out' = Append(openai_out, AudioAppend(payload))
       ELSE UNCHANGED <<latest_media_timestamp, openai_out>>
    /\ UNCHANGED <<scenario, collab, life, tools, stream_sid, last_assistant_item, mark_queue,
                   response_start_timestamp_twilio, pumps, twilio_out, n_out,
                   marks_pushed, marks_popped, empty_acks, interrupted, ss_pre>>

\* data['event'] == 'start': stream_sid and latest_media_timestamp are nonlocal;
\* response_start_timestamp_twilio and last_assistant_item are not declared
\* nonlocal in receive_from_twilio, so the two assignments bind locals of the
\* coroutine and the shared variables keep their values.
Start(sid) ==
    /\ InRecv
    /\ n_in' = n_in + 1
    /\ last_in' = [type |-> "start", sid |-> sid]
    /\ tw_clock' = 0
    /\ stream_sid' = sid
    /\ latest_media_timestamp' = 0
    /\ UNCHANGED <<scenario, collab, life, tools, last_assistant_item, mark_queue, response_start_timestamp_twilio,
                   pumps, wires, n_out,
                   marks_pushed, marks_popped, empty_acks, interrupted, ss_pre>>

PopNewest(q) == SubSeq(q, 1, Len(q) - 1)

\* mark_queue.pop(0)
PopMark(q) == Tail(q)

\* data['event'] == 'mark': pop(0) if the queue is not empty; the mark's name is not read.
Mark(name) ==
    /\ InRecv
    /\ n_in' = n_in + 1
    /\ last_in' = [type |-> "mark", name |-> name]
    /\ IF mark_queue # <<>>
       THEN /\ mark_queue' = PopMark(mark_queue)
            /\ marks_popped' = marks_popped + 1
            /\ UNCHANGED empty_acks
       ELSE /\ empty_acks' = empty_acks + 1
            /\ UNCHANGED <<mark_queue, marks_popped>>
    /\ UNCHANGED <<scenario, collab, life, tools, stream_sid, latest_media_timestamp, last_assistant_item,
                   response_start_timestamp_twilio, pumps, wires, n_out,
                   tw_clock, marks_pushed, interrupted, ss_pre>>

\* ------------------------------------------------------------ Outbound Pump
OutRecv == out_pc = "recv" /\ openai_open

\* response.audio.delta, up to the await of websocket.send_json(audio_delta).
AudioDelta(item, payload) ==
    /\ OutRecv
    /\ n_out' = n_out + 1
    /\ out_event' = [type |-> "response.audio.delta", item_id |-> item]
    /\ twilio_out' = Append(twilio_out, TwilioMedia(stream_sid, payload))
    /\ out_pc' = "delta_sent"
    /\ UNCHANGED <<scenario, collab, life, tools, session, openai_open, in_pc, openai_out, n_in, hist>>

AnchorNever(rst, latest) == rst

\* if response_start_timestamp_twilio is None: anchor to latest_media_timestamp
Anchor(rst, latest) == IF rst = NoneTs THEN latest ELSE rst

AudioDeltaAnchorUnguarded ==
    /\ out_pc = "delta_sent"
    /\ response_start_timestamp_twilio' =
           Anchor(response_start_timestamp_twilio, latest_media_timestamp)
    /\ last_assistant_item' =
           IF out_event.item_id # None THEN out_event.item_id ELSE last_assistant_item
    /\ twilio_out' = Append(twilio_out, TwilioMark(stream_sid))
    /\ out_pc' = "mark_sent"
    /\ UNCHANGED <<scenario, collab, life, tools, stream_sid, latest_media_timestamp, mark_queue,
                   openai_open, in_pc, out_event, openai_out, n_in, n_out, hist>>

\* After the media command: anchor, record the item id, then send_mark up to the
\* await of connection.send_json(mark_event); without a stream id send_mark does nothing.
AudioDeltaAnchor ==
    /\ out_pc = "delta_sent"
    /\ response_start_timestamp_twilio' =
           Anchor(response_start_timestamp_twilio, latest_media_timestamp)
    /\ last_assistant_item' =
           IF out_event.item_id # None THEN out_event.item_id ELSE last_assistant_item
    /\ IF stream_sid # None
       THEN /\ twilio_out' = Append(twilio_out, TwilioMark(stream_sid))
            /\ out_pc' = "mark_sent"
       ELSE /\ out_pc' = "recv"
            /\ UNCHANGED twilio_out
    /\ UNCHANGED <<scenario, collab, life, tools, stream_sid, latest_media_timestamp, mark_queue, openai_open, in_pc,
                   out_event, openai_out, n_in, n_out, hist>>

\* send_mark after its await: mark_queue.append('responsePart').  The entry carries
\* the push number as a history tag; the program stores the name alone.
SendMarkAppend ==
    /\ out_pc = "mark_sent"
    /\ mark_queue' = Append(mark_queue, [name |-> "responsePart", n |-> marks_pushed + 1])
    /\ marks_pushed' = marks_pushed + 1
    /\ out_pc' = "recv"
    /\ UNCHANGED <<scenario, collab, life, tools, stream_sid, latest_media_timestamp, last_assistant_item,
                   response_start_timestamp_twilio, openai_open, in_pc, out_event,
                   wires, n_in, n_out,
                   last_in, tw_clock, marks_popped, empty_acks, interrupted, ss_pre>>

ElapsedUnanchored(latest, rst) == latest

\* elapsed_time = latest_media_timestamp - response_start_timestamp_twilio
Elapsed(latest, rst) == latest - rst

\* if mark_queue and response_start_timestamp_twilio is not None
ShouldInterrupt(mq, rst) == mq # <<>> /\ rst # NoneTs

Snapshot(done) ==
    [handled |-> TRUE, done |-> done, item |-> last_assistant_item,
     rst |-> response_start_timestamp_twilio, latest |-> latest_media_timestamp,
     marks |-> Len(mark_queue)]

SpeechStartedIgnoresItem ==
    /\ OutRecv
    /\ n_out' = n_out + 1
    /\ out_event' = [type |-> "input_audio_buffer.speech_started", item_id |-> None]
    /\ IF ShouldInterrupt(mark_queue, response_start_timestamp_twilio)
       THEN /\ openai_out' =
                  IF last_assistant_item # None
                  THEN Append(openai_out,
                              TruncateEvent(last_assistant_item,
                                            Elapsed(latest_media_timestamp,
                                                    response_start_timestamp_twilio)))
                  ELSE openai_out
            /\ out_pc' = "truncate_sent"
            /\ ss_pre' = Snapshot(FALSE)
       ELSE /\ ss_pre' = Snapshot(TRUE)
            /\ UNCHANGED <<openai_out, out_pc>>
    /\ UNCHANGED <<scenario, collab, life, tools, session, openai_open, in_pc, twilio_out, n_in,
                   last_in, tw_clock, marks_pushed, marks_popped, empty_acks, interrupted>>

SpeechStartedUnguarded ==
    /\ OutRecv
    /\ n_out' = n_out + 1
    /\ out_event' = [type |-> "input_audio_buffer.speech_started", item_id |-> None]
    /\ openai_out' =
          IF last_assistant_item # None
          THEN Append(openai_out,
                      [type |-> "conversation.item.truncate",
                       item_id |-> last_assistant_item, content_index |-> 0,
                       audio_end_ms |-> latest_media_timestamp
                                        - response_start_timestamp_twilio])
          ELSE openai_out
    /\ out_pc' = "truncate_sent"
    /\ ss_pre' = Snapshot(FALSE)
    /\ UNCHANGED <<scenario, collab, life, tools, session, openai_open, in_pc, twilio_out, n_in,
                   last_in, tw_clock, marks_pushed, marks_popped, empty_acks, interrupted>>

\* input_audio_buffer.speech_started: `if last_assistant_item` in send_to_twilio, then
\* handle_speech_started_event up to the await of openai_ws.send(truncate_event).
SpeechStarted ==
    /\ OutRecv
    /\ n_out' = n_out + 1
    /\ out_event' = [type |-> "input_audio_buffer.speech_started", item_id |-> None]
    /\ IF /\ last_assistant_item # None
          /\ ShouldInterrupt(mark_queue, response_start_timestamp_twilio)
       THEN /\ openai_out' =
                  IF last_assistant_item # None
                  THEN Append(openai_out,
                              TruncateEvent(last_assistant_item,
                                            Elapsed(latest_media_timestamp,
                                                    response_start_timestamp_twilio)))
                  ELSE openai_out
            /\ out_pc' = "truncate_sent"
            /\ ss_pre' = Snapshot(FALSE)
       ELSE /\ ss_pre' = Snapshot(TRUE)
            /\ UNCHANGED <<openai_out, out_pc>>
    /\ UNCHANGED <<scenario, collab, life, tools, session, openai_open, in_pc, twilio_out, n_in,
                   last_in, tw_clock, marks_pushed, marks_popped, empty_acks, interrupted>>

SpeechClearResetsEarly ==
    /\ out_pc = "truncate_sent"
    /\ twilio_out' = Append(twilio_out, TwilioClear(stream_sid))
    /\ mark_queue' = <<>>
    /\ out_pc' = "clear_sent"
    /\ UNCHANGED <<scenario, collab, life, tools, stream_sid, latest_media_timestamp, last_assistant_item,
                   response_start_timestamp_twilio, openai_open, in_pc, out_event, openai_out,
                   n_in, n_out, hist>>

\* handle_speech_started_event after the truncate: the clear command, up to its await.
SpeechClear ==
    /\ out_pc = "truncate_sent"
    /\ twilio_out' = Append(twilio_out, TwilioClear(stream_sid))
    /\ out_pc' = "clear_sent"
    /\ UNCHANGED <<scenario, collab, life, tools, session, openai_open, in_pc, out_event, openai_out, n_in, n_out, hist>>

SpeechResetKeepsAnchor ==
    /\ out_pc = "clear_sent"
    /\ mark_queue' = <<>>
    /\ last_assistant_item' = None
    /\ out_pc' = "recv"
    /\ interrupted' = TRUE
    /\ ss_pre' = [ss_pre EXCEPT !.done = TRUE]
    /\ UNCHANGED <<scenario, collab, life, tools, stream_sid, latest_media_timestamp,
                   response_start_timestamp_twilio, openai_open, in_pc, out_event,
                   wires, n_in, n_out,
                   last_in, tw_clock, marks_pushed, marks_popped, empty_acks>>

\* handle_speech_started_event after the clear: mark_queue.clear(), both fields to None.
SpeechReset ==
    /\ out_pc = "clear_sent"
    /\ mark_queue' = <<>>
    /\ last_assistant_item' = None
    /\ response_start_timestamp_twilio' = NoneTs
    /\ out_pc' = "recv"
    /\ interrupted' = TRUE
    /\ ss_pre' = [ss_pre EXCEPT !.done = TRUE]
    /\ UNCHANGED <<scenario, collab, life, tools, stream_sid, latest_media_timestamp, openai_open, in_pc, out_event,
                   wires, n_in, n_out,
                   last_in, tw_clock, marks_pushed, marks_popped, empty_acks>>

\* The AI backend closes its connection: openai_ws.open becomes False.
BackendClose ==
    /\ openai_open
    /\ openai_open' = FALSE
    /\ UNCHANGED <<scenario, collab, life, tools, session, in_pc, out_pc, out_event, wires, n_in, n_out, hist>>

\* `async for openai_message in openai_ws` ends once the connection is closed.
OutboundEnd ==
    /\ out_pc = "recv"
    /\ ~openai_open
    /\ out_pc' = "done"
    /\ UNCHANGED <<scenario, collab, life, tools, session, openai_open, in_pc, out_event, wires, n_in, n_out, hist>>

\* ------------------------------------------------------------ response.done
\* The first loop of send_to_twilio over response.output.  The function output and
\* the response.create that follows it are two sends with no state read between
\* them; they are taken in one step.  The await of search_and_summarize is a step
\* boundary of its own.
ToolNames == {"search_knowledge_base", "save_user_email", "set_reason_for_calling"}
ArgForms ==
    {[parse |-> "bad", value |-> None]} \cup {[parse |-> "dict", value |-> v] : v \in ArgValues}
FunctionCallItems ==
    {[kind |-> "function_call", name |-> n, args |-> a, call_id |-> 0, text |-> None] :
        n \in ToolNames \cup {"get_weather"}, a \in ArgForms}
MessageItems ==
    {[kind |-> "message", name |-> None, args |-> [parse |-> "bad", value |-> None],
      call_id |-> 0, text |-> t] : t \in Texts}
OutputItems == FunctionCallItems \cup MessageItems
Outputs(n) == UNION {[1..k -> OutputItems] : k \in 0..n}

ResponseCreate == [type |-> "response.create"]
FunctionOutput(call_id, result) ==
    [type |-> "conversation.item.create", item_type |-> "function_call_output",
     call_id |-> call_id, output |-> [key |-> "result", value |-> result]]
ErrorOutput(call_id) ==
    [type |-> "conversation.item.create", item_type |-> "function_call_output",
     call_id |-> call_id, output |-> [key |-> "error", value |-> "str(e)"]]
NoInformation == "No relevant information found in the AdvocateHub knowledge base."

\* response.done with response.output: send_to_twilio enters the first loop.
ResponseDone(output) ==
    /\ OutRecv
    /\ n_out' = n_out + 1
    /\ out_event' = [type |-> "response.done", item_id |-> None]
    /\ batch' = [i \in 1..Len(output) |-> [output[i] EXCEPT !.call_id = n_items + i]]
    /\ n_items' = n_items + Len(output)
    /\ fc_idx' = 1
    /\ batch_start' = Len(openai_out)
    /\ raised' = {}
    /\ out_pc' = "function_calls"
    /\ UNCHANGED <<scenario, collab, life, session, openai_open, in_pc, wires, n_in, hist,
                   conversation, kb_initialized, kb_last>>

InFirstLoop == out_pc = "function_calls" /\ fc_idx <= Len(batch)
Item == batch[fc_idx]
IsCall(item) == item.kind = "function_call"
Parses(item) == item.args.parse # "bad"
Dispatched(name) == InFirstLoop /\ IsCall(Item) /\ Parses(Item) /\ Item.name = name

\* What every step of the first loop leaves alone.
DispatchFrame == UNCHANGED <<scenario, collab, life, session, openai_open, in_pc, out_event,
                             twilio_out, n_in, n_out, hist, batch, batch_start, n_items,
                             transcript, current_assistant_response>>
LoopFrame == DispatchFrame /\ UNCHANGED kb_last

\* The except branch of the try around the dispatch: error output, then response.create.
SendError ==
    /\ openai_out' = openai_out \o <<ErrorOutput(Item.call_id), ResponseCreate>>
    /\ raised' = raised \cup {Item.call_id}

\* An output item that is no function call is passed over by the first loop.
NotAFunctionCall ==
    /\ InFirstLoop
    /\ ~IsCall(Item)
    /\ fc_idx' = fc_idx + 1
    /\ LoopFrame
    /\ UNCHANGED <<out_pc, openai_out, raised, user_email, reason_for_calling, kb_initialized>>

\* json.loads(output_item['arguments']) raises: print and continue.
ArgumentsUnparseable ==
    /\ InFirstLoop
    /\ IsCall(Item)
    /\ ~Parses(Item)
    /\ fc_idx' = fc_idx + 1
    /\ LoopFrame
    /\ UNCHANGED <<out_pc, openai_out, raised, user_email, reason_for_calling, kb_initialized>>

\* search_knowledge_base: initialize the engine if needed (it may raise), read
\* arguments["query"] (KeyError without the key), then await search_and_summarize.
KbSearchCall ==
    /\ Dispatched("search_knowledge_base")
    /\ \E init_ok \in (IF kb_initialized THEN {TRUE} ELSE BOOLEAN) :
         /\ kb_initialized' = init_ok
         /\ IF init_ok /\ Item.args.value # None
            THEN /\ out_pc' = "kb_search"
                 /\ UNCHANGED <<fc_idx, openai_out, raised>>
            ELSE /\ SendError
                 /\ fc_idx' = fc_idx + 1
                 /\ UNCHANGED out_pc
    /\ LoopFrame
    /\ UNCHANGED <<user_email, reason_for_calling>>

TruthyNotNone(v) == v # None

\* `if email:` / `if reason:` / `summary if summary else` -- None and the empty
\* string are falsy
Truthy(v) == v # None /\ v # ""

\* How one call of search_and_summarize goes: self.search raises, returns no
\* result, or returns a best match with a score; generate_summary then raises or
\* returns the content of the completion.
ScoreThreshold == 50            \* `score < 0.5`, in hundredths
Scores == {ScoreThreshold - 1, ScoreThreshold, ScoreThreshold + 1}
SearchFails == [search |-> "raises", score |-> 0, content |-> None]
NoArticle == [search |-> "empty", score |-> 0, content |-> None]
LowScore == [search |-> "hit", score |-> ScoreThreshold - 1, content |-> "summary"]
GoodSummary == [search |-> "hit", score |-> ScoreThreshold, content |-> "summary"]
KbOutcomes ==
    {SearchFails, NoArticle, LowScore} \cup
    {[search |-> "hit", score |-> sc, content |-> c] :
        sc \in {x \in Scores : x >= ScoreThreshold}, c \in Contents}

SummarizeAnyScore(o) ==
    IF o.search # "hit" \/ o.content = "raises" THEN None ELSE o.content

\* KBSearchEngine.search_and_summarize: None when the search raised, found nothing
\* or scored below the threshold, or when generate_summary raised; else the summary.
SearchAndSummarize(o) ==
    IF o.search = "raises" THEN None
    ELSE IF o.search = "empty" THEN None
    ELSE IF o.score < ScoreThreshold THEN None
    ELSE IF o.content = "raises" THEN None
    ELSE o.content

\* search_and_summarize returns: the function output with the summary, or the
\* fallback text for a falsy summary, then response.create.
KbSearchReturns(o) ==
    /\ out_pc = "kb_search"
    /\ kb_last' = o
    /\ LET summary == SearchAndSummarize(o)
       IN openai_out' = openai_out \o
             <<FunctionOutput(Item.call_id, IF Truthy(summary) THEN summary ELSE NoInformation),
               ResponseCreate>>
    /\ fc_idx' = fc_idx + 1
    /\ out_pc' = "function_calls"
    /\ DispatchFrame
    /\ UNCHANGED <<raised, user_email, reason_for_calling, kb_initialized>>

\* save_user_email: store a truthy email, send the output, then response.create.
SaveUserEmail ==
    /\ Dispatched("save_user_email")
    /\ user_email' = IF Truthy(Item.args.value) THEN Item.args.value ELSE user_email
    /\ openai_out' = openai_out \o
          <<FunctionOutput(Item.call_id, "Email saved successfully."), ResponseCreate>>
    /\ fc_idx' = fc_idx + 1
    /\ LoopFrame
    /\ UNCHANGED <<out_pc, raised, reason_for_calling, kb_initialized>>

\* set_reason_for_calling: store a truthy reason, send the output, then response.create.
SetReasonForCalling ==
    /\ Dispatched("set_reason_for_calling")
    /\ reason_for_calling' =
          IF Truthy(Item.args.value) THEN Item.args.value ELSE reason_for_calling
    /\ openai_out' = openai_out \o
          <<FunctionOutput(Item.call_id, "Reason for calling saved successfully."),
            ResponseCreate>>
    /\ fc_idx' = fc_idx + 1
    /\ LoopFrame
    /\ UNCHANGED <<out_pc, raised, user_email, kb_initialized>>

\* A name matching no branch of the if/elif chain: only response.create is sent.
UnknownFunction ==
    /\ InFirstLoop
    /\ IsCall(Item)
    /\ Parses(Item)
    /\ Item.name \notin ToolNames
    /\ openai_out' = Append(openai_out, ResponseCreate)
    /\ fc_idx' = fc_idx + 1
    /\ LoopFrame
    /\ UNCHANGED <<out_pc, raised, user_email, reason_for_calling, kb_initialized>>

StripNothing(t) == t

\* text.strip()
Strip(t) == IF t = " " THEN "" ELSE t

\* add_assistant_message for every assistant message of the output, in order
RECURSIVE AddAssistantMessages(_, _)
AddAssistantMessages(tr, items) ==
    IF items = <<>> THEN tr
    ELSE LET it == Head(items)
             next == IF it.kind = "message" /\ Strip(it.text) # ""
                     THEN Append(tr, [role |-> "assistant", content |-> it.text])
                     ELSE tr
         IN  AddAssistantMessages(next, Tail(items))

\* After the first loop: the second loop over the output appends the assistant
\* messages, then the partial-response buffer is cleared.
AssistantMessages ==
    /\ out_pc = "function_calls"
    /\ fc_idx > Len(batch)
    /\ transcript' = AddAssistantMessages(transcript, batch)
    /\ current_assistant_response' = <<>>
    /\ out_pc' = "recv"
    /\ UNCHANGED <<scenario, collab, life, session, openai_open, in_pc, out_event, wires, n_in, n_out,
                   hist, user_email, reason_for_calling, kb_initialized, batch, fc_idx,
                   batch_start, raised, n_items, kb_last>>

\* ------------------------------------------------------------ environment
\* Telephony sends start, media (timestamps of one stream never decrease) and mark
\* events; the AI backend sends audio deltas and speech-started events.
TelephonyMedia == n_in < MaxIn /\ \E ts \in Timestamps, p \in Payloads : Media(ts, p)
TelephonyStart == n_in < MaxIn /\ \E sid \in StreamSids : Start(sid)
TelephonyMark == n_in < MaxIn /\ \E name \in MarkNames : Mark(name)
BackendAudioDelta ==
    n_out < MaxOut /\ \E item \in ItemIds \cup {None}, p \in Payloads : AudioDelta(item, p)
BackendSpeechStarted == n_out < MaxOut /\ SpeechStarted

Next ==
    \/ TelephonyMedia
    \/ TelephonyStart
    \/ TelephonyMark
    \/ BackendAudioDelta
    \/ AudioDeltaAnchor
    \/ SendMarkAppend
    \/ BackendSpeechStarted
    \/ SpeechClear
    \/ SpeechReset
    \/ BackendClose
    \/ OutboundEnd

Spec == Init /\ [][Next]_vars

\* ------------------------------------------------------------ acknowledged marks
\* A call in which telephony answers every mark command it is sent with one mark
\* event, and the backend sends no speech-started event.
MarksSent == Cardinality({i \in DOMAIN twilio_out : twilio_out[i].event = "mark"})
MarksAcknowledged == marks_popped + empty_acks
TelephonyAcknowledges ==
    /\ n_in < MaxIn
    /\ MarksAcknowledged < MarksSent
    /\ Mark("responsePart")
NextMarks ==
    \/ TelephonyMedia
    \/ TelephonyStart
    \/ TelephonyAcknowledges
    \/ BackendAudioDelta
    \/ AudioDeltaAnchor
    \/ SendMarkAppend
    \/ BackendClose
    \/ OutboundEnd
SpecMarks == Init /\ [][NextMarks]_vars

\* ------------------------------------------------------------ scripted call
\* A call in which telephony sends start and three media events and the backend
\* sends one audio delta and then speech-started; the pumps interleave freely.
NonDecreasing == {t \in Timestamps \X Timestamps \X Timestamps : t[1] <= t[2] /\ t[2] <= t[3]}

Scenarios ==
    { [tin |-> << [type |-> "start", sid |-> s], [type |-> "media", ts |-> t[1]],
                  [type |-> "media", ts |-> t[2]], [type |-> "media", ts |-> t[3]] >>,
       tout |-> << [type |-> "response.audio.delta", item_id |-> i],
                   [type |-> "input_audio_buffer.speech_started"] >>] :
      s \in ScenarioSids, i \in ItemIds, t \in NonDecreasing }

NextIn == scenario.tin[n_in + 1]
NextOut == scenario.tout[n_out + 1]

ScriptStart ==
    n_in < Len(scenario.tin) /\ NextIn.type = "start" /\ Start(NextIn.sid)
ScriptMedia ==
    n_in < Len(scenario.tin) /\ NextIn.type = "media"
        /\ \E p \in Payloads : Media(NextIn.ts, p)
ScriptAudioDelta ==
    n_out < Len(scenario.tout) /\ NextOut.type = "response.audio.delta"
        /\ \E p \in Payloads : AudioDelta(NextOut.item_id, p)
ScriptSpeechStarted ==
    n_out < Len(scenario.tout) /\ NextOut.type = "input_audio_buffer.speech_started"
        /\ SpeechStarted

InitScenario == Connected /\ scenario \in Scenarios

NextScenario ==
    \/ ScriptStart
    \/ ScriptMedia
    \/ ScriptAudioDelta
    \/ AudioDeltaAnchor
    \/ SendMarkAppend
    \/ ScriptSpeechStarted
    \/ SpeechClear
    \/ SpeechReset

SpecScenario == InitScenario /\ [][NextScenario]_vars

\* ------------------------------------------------------------ tool dispatch
\* The backend sends response.done events; the first loop of send_to_twilio
\* dispatches their function calls one after the other.
BackendResponseDone ==
    n_out < MaxDone /\ \E output \in Outputs(MaxItems - n_items) : ResponseDone(output)
KbSearchResult == \E o \in KbOutcomes : KbSearchReturns(o)

NextTools ==
    \/ BackendResponseDone
    \/ NotAFunctionCall
    \/ ArgumentsUnparseable
    \/ KbSearchCall
    \/ KbSearchResult
    \/ SaveUserEmail
    \/ SetReasonForCalling
    \/ UnknownFunction
    \/ AssistantMessages

SpecTools == Init /\ [][NextTools]_vars

\* ------------------------------------------------------------ tool calls and media
\* The tool dispatch with the Inbound Pump running beside it.  receive_from_twilio
\* runs while send_to_twilio is suspended: in its read of the backend or in the
\* await of search_and_summarize.
ToolCallMediaBlocked ==
    /\ n_in < MaxToolIn
    /\ out_pc = "recv"
    /\ \E ts \in Timestamps, p \in Payloads : Media(ts, p)

ToolCallMedia ==
    /\ n_in < MaxToolIn
    /\ out_pc \in {"recv", "kb_search"}
    /\ \E ts \in Timestamps, p \in Payloads : Media(ts, p)

\* response.done events whose output items are search_knowledge_base calls.
KbCallItems == {it \in FunctionCallItems : it.name = "search_knowledge_base" /\ Parses(it)}
KbCallOutputs(n) == UNION {[1..k -> KbCallItems] : k \in 1..n}
BackendKbCalls ==
    n_out < MaxDone /\ \E output \in KbCallOutputs(MaxItems - n_items) : ResponseDone(output)

KbSearchEnds == \E o \in {NoArticle, GoodSummary} : KbSearchReturns(o)

NextToolCall ==
    \/ BackendKbCalls
    \/ KbSearchCall
    \/ KbSearchEnds
    \/ AssistantMessages
    \/ ToolCallMedia

SpecToolCall == Init /\ [][NextToolCall]_vars

\* ------------------------------------------------------------ media forwarding
\* Telephony sends start, media and mark events with payloads that differ; the
\* backend may close its connection.
ForwardMedia ==
    n_in < MaxForwardIn /\ \E ts \in Timestamps, p \in MediaPayloads : Media(ts, p)
ForwardStart == n_in < MaxForwardIn /\ \E sid \in StreamSids : Start(sid)
ForwardMark == n_in < MaxForwardIn /\ \E name \in MarkNames : Mark(name)

NextForward ==
    \/ ForwardMedia
    \/ ForwardStart
    \/ ForwardMark
    \/ BackendClose
    \/ OutboundEnd

SpecForward == Init /\ [][NextForward]_vars

\* ------------------------------------------------------------ call lifecycle
\* data['event'] == 'stop': the summary, the rendered transcript and the ticket are
\* built from the conversation, then create_ticket is awaited.
Stop ==
    /\ InRecv
    /\ n_in' = n_in + 1
    /\ last_in' = [type |-> "stop"]
    /\ finalizer_log' = Append(finalizer_log,
                               [stream_sid |-> stream_sid, email |-> user_email,
                                transcript_text |-> transcript, outcome |-> "pending",
                                transcript_printed |-> FALSE])
    /\ in_pc' = "create_ticket"
    /\ UNCHANGED <<scenario, collab, tools, session, openai_open, out_pc, out_event, wires, n_out,
                   tw_clock, marks_pushed, marks_popped, empty_acks, interrupted, ss_pre,
                   telephony_open, handler_pc>>

\* What the return of create_ticket leaves alone.
TicketFrame == UNCHANGED <<scenario, collab, tools, session, openai_open, out_pc, out_event, wires,
                           n_in, n_out, hist, telephony_open, handler_pc>>

\* create_ticket returns a ticket id: two prints, and the loop reads the next message.
TicketCreated ==
    /\ in_pc = "create_ticket"
    /\ finalizer_log' = [finalizer_log EXCEPT ![Len(finalizer_log)].outcome = "created"]
    /\ in_pc' = "recv"
    /\ TicketFrame

\* create_ticket raises: `except Exception` prints the error and transcript_text;
\* nothing is raised from the branch and the loop reads the next message.
TicketFails ==
    /\ in_pc = "create_ticket"
    /\ finalizer_log' = [finalizer_log EXCEPT ![Len(finalizer_log)].outcome = "failed",
                                              ![Len(finalizer_log)].transcript_printed = TRUE]
    /\ in_pc' = "recv"
    /\ TicketFrame

\* A message that is no well-shaped event.  json.loads, data['event'],
\* data['media']['timestamp'], data['media']['payload'] and data['start']['streamSid']
\* raise JSONDecodeError or KeyError; the only except clause of receive_from_twilio is
\* for WebSocketDisconnect, so the exception leaves the coroutine.  The media branch is
\* entered only while openai_ws.open, and it assigns latest_media_timestamp before it
\* reads the payload.
MalformedTelephonyEvent(kind, ts) ==
    /\ InRecv
    /\ ts >= tw_clock
    /\ n_in' = n_in + 1
    /\ last_in' = [type |-> "malformed", kind |-> kind]
    /\ in_pc' = IF kind \in {"media_no_timestamp", "media_no_payload"} /\ ~openai_open
                THEN "recv" ELSE "raised"
    /\ latest_media_timestamp' = IF kind = "media_no_payload" /\ openai_open
                                 THEN ts ELSE latest_media_timestamp
    /\ UNCHANGED <<scenario, collab, tools, stream_sid, last_assistant_item, mark_queue,
                   response_start_timestamp_twilio, openai_open, out_pc, out_event, wires,
                   n_out, tw_clock, marks_pushed, marks_popped, empty_acks, interrupted,
                   ss_pre, life>>

\* The telephony peer closes its websocket.
TelephonyDisconnect ==
    /\ telephony_open
    /\ handler_pc = "gather"
    /\ telephony_open' = FALSE
    /\ UNCHANGED <<scenario, collab, tools, session, pumps, wires, n_in, n_out, hist,
                   handler_pc, finalizer_log>>

\* websocket.iter_text() after the disconnect.  Either WebSocketDisconnect is raised
\* out of the loop and the except clause closes openai_ws if it is open, or the
\* iterator ends without raising and the coroutine returns with openai_ws as it is:
\* which of the two, the web framework decides.
InboundDisconnected ==
    /\ InRecv
    /\ ~telephony_open
    /\ \E raises \in BOOLEAN : openai_open' = (openai_open /\ ~raises)
    /\ in_pc' = "done"
    /\ UNCHANGED <<scenario, collab, tools, session, out_pc, out_event, wires, n_in, n_out, hist, life>>

\* add_user_message: text.strip() must be non-empty
AddUserMessage(tr, text) ==
    IF Strip(text) # "" THEN Append(tr, [role |-> "user", content |-> text]) ELSE tr

\* conversation.item.input_audio_transcription.completed with a transcript.
UserTranscript(text) ==
    /\ OutRecv
    /\ n_out' = n_out + 1
    /\ out_event' = [type |-> "conversation.item.input_audio_transcription.completed",
                     item_id |-> None]
    /\ transcript' = AddUserMessage(transcript, text)
    /\ UNCHANGED <<scenario, collab, life, session, openai_open, in_pc, out_pc, wires, n_in, hist,
                   user_email, reason_for_calling, current_assistant_response,
                   kb_initialized, batch, fc_idx, batch_start, raised, n_items, kb_last>>

\* A backend message that is no well-shaped event.  json.loads, response['type'] and
\* base64.b64decode raise inside the try of send_to_twilio; `except Exception` prints
\* the error and the coroutine returns.
MalformedBackendEvent(kind) ==
    /\ OutRecv
    /\ n_out' = n_out + 1
    /\ out_event' = [type |-> "malformed", item_id |-> None, kind |-> kind]
    /\ out_pc' = "done"
    /\ UNCHANGED <<scenario, collab, life, tools, session, openai_open, in_pc, wires, n_in, hist>>

\* asyncio.gather returns once both coroutines have returned, and raises as soon as
\* one of them raises (the other is left running).  handle_media_stream then leaves
\* `async with websockets.connect(...)`, which closes openai_ws, and returns to the
\* server, which closes the telephony websocket.
SessionExit ==
    /\ handler_pc = "gather"
    /\ \/ in_pc = "raised"
       \/ in_pc = "done" /\ out_pc = "done"
    /\ handler_pc' = "exited"
    /\ openai_open' = FALSE
    /\ telephony_open' = FALSE
    /\ UNCHANGED <<scenario, collab, tools, session, in_pc, out_pc, out_event, wires, n_in, n_out,
                   hist, finalizer_log>>

\* Telephony sends events while its websocket is connected; the backend sends
\* transcription events and malformed messages.
LifeMedia ==
    telephony_open /\ n_in < MaxLifeIn /\ \E ts \in Timestamps, p \in Payloads : Media(ts, p)
LifeStart == telephony_open /\ n_in < MaxLifeIn /\ \E sid \in StreamSids : Start(sid)
LifeMark == telephony_open /\ n_in < MaxLifeIn /\ \E name \in MarkNames : Mark(name)
LifeStop == telephony_open /\ n_in < MaxLifeIn /\ Stop
LifeMalformedTelephony ==
    telephony_open /\ n_in < MaxLifeIn
        /\ \E kind \in MalformedTelephony, ts \in Timestamps : MalformedTelephonyEvent(kind, ts)
LifeUserTranscript == n_out < MaxLifeOut /\ \E text \in Texts : UserTranscript(text)
LifeMalformedBackend ==
    n_out < MaxLifeOut /\ \E kind \in MalformedBackend : MalformedBackendEvent(kind)

NextLife ==
    \/ BackendClose
    \/ OutboundEnd
    \/ LifeUserTranscript
    \/ LifeMalformedBackend
    \/ LifeMedia
    \/ LifeStart
    \/ LifeMark
    \/ LifeStop
    \/ TicketCreated
    \/ TicketFails
    \/ LifeMalformedTelephony
    \/ TelephonyDisconnect
    \/ InboundDisconnected
    \/ SessionExit

SpecLife == Init /\ [][NextLife]_vars

\* The steps the event loop takes with no further message from either peer: the
\* ticket call returns, a closed connection ends the loop that reads it, and gather
\* returns.  No peer is obliged to send or to hang up.
ProgramStep == TicketCreated \/ TicketFails \/ InboundDisconnected \/ OutboundEnd \/ SessionExit

SpecLifeFair == SpecLife /\ WF_vars(ProgramStep)

\* ------------------------------------------------------------ transcript
\* response.content.part with content.text: the text joins the partial-response buffer.
ContentPart(part_text) ==
    /\ OutRecv
    /\ n_out' = n_out + 1
    /\ out_event' = [type |-> "response.content.part", item_id |-> None]
    /\ current_assistant_response' = Append(current_assistant_response, part_text)
    /\ UNCHANGED <<scenario, collab, life, session, openai_open, in_pc, out_pc, wires, n_in, hist,
                   user_email, reason_for_calling, transcript, kb_initialized, batch, fc_idx,
                   batch_start, raised, n_items, kb_last>>

\* The backend sends user transcripts, parts of the assistant's text and
\* response.done events holding assistant messages and set_reason_for_calling calls.
TranscriptTexts == Texts \cup {"", "bye"}
TranscriptItems ==
    {[kind |-> "message", name |-> None, args |-> [parse |-> "bad", value |-> None],
      call_id |-> 0, text |-> t] : t \in TranscriptTexts} \cup
    {it \in FunctionCallItems : it.name = "set_reason_for_calling" /\ it.args.value = "a"}
TranscriptOutputs(n) == UNION {[1..k -> TranscriptItems] : k \in 0..n}
TranscriptUser == n_out < MaxTrOut /\ \E text \in TranscriptTexts : UserTranscript(text)
TranscriptPart == n_out < MaxTrOut /\ \E part_text \in {"hel", "lo"} : ContentPart(part_text)
TranscriptDone ==
    /\ n_out < MaxTrOut
    /\ \E output \in TranscriptOutputs(MaxItems - n_items) : ResponseDone(output)

NextTranscript ==
    \/ TranscriptUser
    \/ TranscriptPart
    \/ TranscriptDone
    \/ NotAFunctionCall
    \/ SetReasonForCalling
    \/ AssistantMessages

SpecTranscript == Init /\ [][NextTranscript]_vars

\* ------------------------------------------------------------ AudioRecorder
recording_start_time == 1       \* datetime.now() when the recorder was constructed
DecodeError == "binascii.Error"
B64DecodeLenient(audio_payload) ==
    CASE audio_payload = "YQ==" -> "a"
      [] audio_payload = "Yg==" -> "b"
      [] OTHER -> ""

\* base64.b64decode: "YQ==" is b"a", "Yg==" is b"b"; one character of data is an error
B64Decode(audio_payload) ==
    CASE audio_payload = "YQ==" -> "a"
      [] audio_payload = "Yg==" -> "b"
      [] OTHER -> DecodeError
IsoFormat(t) == <<"iso", t>>
AudioSegment(role, timestamp, audio_data) ==
    [role |-> role, timestamp |-> timestamp, audio_data |-> audio_data]
ReturnsNone == [returned |-> "None", utterances |-> <<>>, start_time |-> <<>>,
                end_time |-> <<>>]

AddAudioChunk(audio_payload, is_assistant, now) ==
    /\ n_rec < MaxRec
    /\ LET audio_data == B64Decode(audio_payload)
       IN IF audio_data = DecodeError
          THEN UNCHANGED segments
          ELSE segments' = Append(segments,
                   AudioSegment(IF is_assistant THEN "assistant" ELSE "user", now, audio_data))
    /\ rec_call' = [op |-> "add", io |-> "ok", payload |-> audio_payload]
    /\ n_rec' = n_rec + 1
    /\ UNCHANGED <<relay, ticketing, client, wav_file, metadata_written, close_result,
                   pre_close>>

NoSegmentsNever(segs) == FALSE
NoSegments(segs) == segs = <<>>

InsertAtEnd(sorted, seg) == Append(sorted, seg)
InsertByTimestamp(sorted, seg) ==
    LET k == Cardinality({i \in 1..Len(sorted) : sorted[i].timestamp <= seg.timestamp})
    IN SubSeq(sorted, 1, k) \o <<seg>> \o SubSeq(sorted, k + 1, Len(sorted))
RECURSIVE SortByTimestamp(_)
SortByTimestamp(segs) ==
    IF segs = <<>> THEN <<>>
    ELSE InsertByTimestamp(SortByTimestamp(SubSeq(segs, 1, Len(segs) - 1)), segs[Len(segs)])

Utterance(role, start, end) ==
    [role |-> role, start_time |-> IsoFormat(start), end_time |-> IsoFormat(end)]
RECURSIVE UtteranceLoop(_, _, _, _, _)
UtteranceLoop(segs, i, current_role, current_start, utterances) ==
    IF i > Len(segs)
    THEN [current_role |-> current_role, current_start |-> current_start,
          utterances |-> utterances]
    ELSE LET segment == segs[i]
             changed == current_role # None /\ current_role # segment.role
             fresh == current_role = None \/ current_role # segment.role
         IN UtteranceLoop(segs, i + 1,
                IF fresh THEN segment.role ELSE current_role,
                IF fresh THEN segment.timestamp ELSE current_start,
                IF changed
                THEN Append(utterances,
                            Utterance(current_role, current_start, segment.timestamp))
                ELSE utterances)
Utterances(segs, now) ==
    LET l == UtteranceLoop(segs, 1, None, NoneTs, <<>>)
    IN IF l.current_role # None
       THEN Append(l.utterances, Utterance(l.current_role, l.current_start, now))
       ELSE l.utterances

Close(now, now_end, io) ==
    /\ n_rec < MaxRec
    /\ n_rec' = n_rec + 1
    /\ pre_close' = segments
    /\ rec_call' = [op |-> "close", io |-> io, payload |-> ""]
    /\ IF NoSegments(segments)
       THEN /\ close_result' = ReturnsNone
            /\ UNCHANGED <<segments, wav_file, metadata_written>>
       ELSE LET sorted == SortByTimestamp(segments)
            IN /\ segments' = sorted
               /\ IF io = "wav_fails"
                  THEN /\ close_result' = ReturnsNone
                       /\ UNCHANGED <<wav_file, metadata_written>>
                  ELSE /\ wav_file' = [written |-> TRUE,
                                       frames |-> [i \in 1..Len(sorted) |->
                                                      sorted[i].audio_data]]
                       /\ IF io = "metadata_fails"
                          THEN /\ close_result' = ReturnsNone
                               /\ UNCHANGED metadata_written
                          ELSE /\ metadata_written' = TRUE
                               /\ close_result' =
                                      [returned |-> "manifest",
                                       utterances |-> Utterances(sorted, now),
                                       start_time |-> IsoFormat(recording_start_time),
                                       end_time |-> IsoFormat(now_end)]
    /\ UNCHANGED <<relay, ticketing, client>>

RecorderAdd ==
    \E audio_payload \in RecPayloads, is_assistant \in BOOLEAN, now \in RecTimes :
        AddAudioChunk(audio_payload, is_assistant, now)
RecorderClose == \E now \in RecTimes, now_end \in RecTimes, io \in IoOutcomes :
                     Close(now, now_end, io)
NextRecorder == RecorderAdd \/ RecorderClose
SpecRecorder == Init /\ [][NextRecorder]_vars

\* ------------------------------------------------------------ TicketManager
\* A string argument, as the sequence of its characters.
Str(s) == [given |-> TRUE, s |-> s]
\* `if email` / `if phone`: None and the empty string are falsy.
Provided(arg) == arg.given /\ arg.s # <<>>

Letters == {"a", "b", "c", "l", "m", "o"}
Digits == {"0", "1", "2", "3", "4", "5", "6", "7", "8", "9"}
LocalChars == Letters \cup Digits \cup {".", "_", "%", "+", "-"}
DomainChars == Letters \cup Digits \cup {".", "-"}
Separators == {" ", "\n", "-", "(", ")", "."}
TenDigits == <<"5", "5", "5", "1", "2", "3", "4", "5", "6", "7">>

\* Where `$` matches: at the end of the string and before a newline that ends it.
Ends(s) == {Len(s)} \cup (IF s # <<>> /\ s[Len(s)] = "\n" THEN {Len(s) - 1} ELSE {})
AllIn(s, from, to, chars) == \A k \in from..to : s[k] \in chars

ValidateEmailNoTld(s) ==
    \E end \in Ends(s), i \in 2..Len(s) :
        /\ s[i] = "@"
        /\ i < end
        /\ AllIn(s, 1, i - 1, LocalChars)
        /\ AllIn(s, i + 1, end, DomainChars)

\* re.match(r'^[a-zA-Z0-9._%+-]+@[a-zA-Z0-9.-]+\.[a-zA-Z]{2,}$', email)
ValidateEmail(s) ==
    \E end \in Ends(s), i \in 2..Len(s), j \in 4..Len(s) :
        /\ s[i] = "@"
        /\ i + 2 <= j
        /\ s[j] = "."
        /\ j + 2 <= end
        /\ AllIn(s, 1, i - 1, LocalChars)
        /\ AllIn(s, i + 1, j - 1, DomainChars)
        /\ AllIn(s, j + 1, end, Letters)

\* re.sub(r'[\s\-\(\)\.]', '', phone)
Cleaned(s) == SelectSeq(s, LAMBDA ch : ch \notin Separators)
\* re.match(r'^\+?1?\d{10,14}$', cleaned)
ValidatePhone(s) ==
    LET c == Cleaned(s)
    IN \E plus \in 0..1, one \in 0..1 :
          /\ plus + one <= Len(c)
          /\ plus = 1 => c[1] = "+"
          /\ one = 1 => c[plus + 1] = "1"
          /\ Len(c) - plus - one \in 10..14
          /\ AllIn(c, plus + one + 1, Len(c), Digits)

Emails ==
    {NoArg, Str(<<>>),
     Str(<<"a", "@", "b", ".", "c", "o">>),
     Str(<<"a", ".", "b", "+", "1", "@", "b", "-", "c", ".", "c", "o", ".", "o", "m">>),
     Str(<<"a", "@", "b", ".", "c", "o", "\n">>),
     Str(<<"a", "@", "b">>),
     Str(<<"a", "@", "b", ".", "c">>),
     Str(<<"a", "@", "b", ".", "c", "1">>),
     Str(<<"@", "b", ".", "c", "o">>),
     Str(<<"a", " ", "b", "@", "b", ".", "c", "o">>),
     Str(<<"a", "b", ".", "c", "o">>)}
Phones ==
    {NoArg, Str(<<>>),
     Str(TenDigits),
     Str(<<"+", "1">> \o TenDigits),
     Str(<<"(", "5", "5", "5", ")", " ", "1", "2", "3", "-", "4", "5", "6", "7">>),
     Str(SubSeq(TenDigits, 1, 9)),
     Str(TenDigits \o SubSeq(TenDigits, 1, 6)),
     Str(<<"5", "5", "5", "-", "c", "a", "l", "l">>),
     Str(<<"-">>)}
\* How the calls on self.api go once the arguments are accepted.
UserOutcomes == {"found", "lookup_fails", "created", "create_user_fails", "not_retrievable"}
TicketOutcomes == {"ok", "fails"}

\* The calls made on self.api for the user, in order.
UserCalls(user) ==
    CASE user = "found" -> <<"get_user_by_email">>
      [] user = "lookup_fails" -> <<"get_user_by_email">>
      [] user = "create_user_fails" -> <<"get_user_by_email", "create_user">>
      [] OTHER -> <<"get_user_by_email", "create_user", "get_user_by_email">>

Ended(outcome, message, email, phone, api) ==
    [outcome |-> outcome, message |-> message, email |-> email, phone |-> phone, api |-> api]

CreateTicket(email, phone, user, ticket) ==
    /\ n_tickets < MaxTickets
    /\ n_tickets' = n_tickets + 1
    /\ IF ~Provided(email) /\ ~Provided(phone)
       THEN /\ create_result' = Ended("ValueError",
                   "Either email or phone number must be provided", email, phone, "none")
            /\ UNCHANGED api_calls
       ELSE IF Provided(email) /\ ~ValidateEmail(email.s)
       THEN /\ create_result' = Ended("ValueError", "Invalid email format", email, phone,
                                      "none")
            /\ UNCHANGED api_calls
       ELSE IF Provided(phone) /\ ~ValidatePhone(phone.s)
       THEN /\ create_result' = Ended("ValueError", "Invalid phone number format", email,
                                      phone, "none")
            /\ UNCHANGED api_calls
       ELSE IF Provided(email) /\ user \in {"lookup_fails", "create_user_fails"}
       THEN /\ create_result' = Ended("Exception", "str(e)", email, phone, user)
            /\ api_calls' = api_calls \o UserCalls(user)
       ELSE IF Provided(email) /\ user = "not_retrievable"
       THEN /\ create_result' = Ended("ValueError",
                   "Failed to retrieve newly created user", email, phone, user)
            /\ api_calls' = api_calls \o UserCalls(user)
       ELSE /\ create_result' =
                   IF ticket = "ok"
                   THEN Ended("returned", "ticket_id", email, phone, ticket)
                   ELSE Ended("Exception", "str(e)", email, phone, ticket)
            /\ api_calls' = api_calls \o (IF Provided(email) THEN UserCalls(user) ELSE <<>>)
                                      \o <<"create_ticket">>
    /\ UNCHANGED <<relay, recorder, client>>

TicketRequest ==
    \E email \in Emails, phone \in Phones, user \in UserOutcomes, ticket \in TicketOutcomes :
        CreateTicket(email, phone, user, ticket)
NextTickets == TicketRequest
SpecTickets == Init /\ [][NextTickets]_vars

\* ------------------------------------------------------------ TicketClassifier
\* A text, as what the classifier reads from it: for each priority id and each
\* type id the number of its patterns found in the text, the priority of the first
\* urgency indicator found (NoId: none), the number of words, and the structural
\* indicators of classify_type.
TextOf(name, pm, tm, urgency, words, flags) ==
    [name |-> name, pm |-> pm, tm |-> tm, urgency |-> urgency, words |-> words,
     qmark |-> "?" \in flags, problem |-> "problem" \in flags, task |-> "task" \in flags,
     service |-> "service" \in flags, qstart |-> "qstart" \in flags,
     rstart |-> "rstart" \in flags]
NoMatch4 == <<0, 0, 0, 0>>
NoMatch7 == <<0, 0, 0, 0, 0, 0, 0>>
\* "hello there"
Hello == TextOf("hello", NoMatch4, NoMatch7, NoId, 2, {})
\* "This is a test ticket created via API to test functionality."
TestTicket == TextOf("test_ticket", NoMatch4, <<0, 1, 0, 0, 0, 1, 0>>, NoId, 11, {"task"})
\* "urgent: the system is down"
SystemDown == TextOf("system_down", <<0, 0, 0, 2>>, <<0, 0, 0, 1, 0, 0, 0>>, NoId, 5, {})
\* "how do I reset it?"
HowDoI == TextOf("how_do_i", NoMatch4, <<1, 0, 0, 0, 0, 0, 0>>, NoId, 5, {"?", "qstart"})
\* "please call me back"
CallMeBack == TextOf("call_me_back", NoMatch4, NoMatch7, NoId, 4, {"rstart"})
\* "it is broken"
Broken == TextOf("broken", <<0, 0, 0, 1>>, NoMatch7, NoId, 3, {"problem"})
\* "minor bug, important and serious"
MinorBug == TextOf("minor_bug", <<1, 0, 2, 0>>, <<0, 0, 1, 0, 0, 0, 0>>, NoId, 5, {"problem"})
\* "my account"
MyAccount == TextOf("my_account", NoMatch4, NoMatch7, NoId, 2, {"service"})
\* "could you help if possible"
IfPossible == TextOf("if_possible", NoMatch4, NoMatch7, 2, 5, {"rstart"})
\* the ticket_content the stop branch builds for a call with an empty transcript:
\* "Support Request Details" matches a pattern of type 7
EmptyCall == TextOf("empty_call", NoMatch4, <<0, 0, 0, 0, 0, 0, 1>>, NoId, 51, {})
KTexts == {Hello, TestTicket, SystemDown, HowDoI, CallMeBack, Broken, MinorBug, MyAccount,
           IfPossible, EmptyCall}

PriorityIds == 1..4             \* the keys of PRIORITY_NAMES
TypeIds == 1..7                 \* the keys of TYPE_NAMES
PriorityOrder == <<4, 3, 2, 1>> \* the keys of PRIORITY_PATTERNS, in order
TypeOrder == <<1, 2, 3, 4, 6, 7>> \* the keys of TYPE_PATTERNS, in order
PriorityPatternsMax == 10       \* max(len(patterns)) over PRIORITY_PATTERNS
TypePatternsMax == 9            \* max(len(patterns)) over TYPE_PATTERNS

\* _calculate_confidence, in thousandths
CalculateConfidence(match_count, total_patterns) ==
    IF match_count = 0 THEN 0
    ELSE LET c == 500 + (match_count * 500) \div total_patterns
         IN IF c < 1000 THEN c ELSE 1000

Best(id, confidence) == [id |-> id, confidence |-> confidence]
\* The first pass of classify_priority and classify_type: the first id, in the
\* order of the patterns, with the highest confidence among those with a match.
RECURSIVE FirstPass(_, _, _, _, _)
FirstPass(order, counts, total_patterns, i, best) ==
    IF i > Len(order) THEN best
    ELSE LET confidence == CalculateConfidence(counts[order[i]], total_patterns)
         IN FirstPass(order, counts, total_patterns, i + 1,
                      IF counts[order[i]] > 0 /\ confidence > best.confidence
                      THEN Best(order[i], confidence) ELSE best)

ClassifyPriority(text) ==
    LET first == FirstPass(PriorityOrder, text.pm, PriorityPatternsMax, 1, Best(NoId, 0))
        second == IF (first.id = NoId \/ first.confidence < 500)
                     /\ text.urgency # NoId /\ first.id = NoId
                  THEN Best(text.urgency, 400) ELSE first
    IN IF second.id = NoId
       THEN Best(IF text.words < 10 THEN 1 ELSE IF text.words < 20 THEN 2 ELSE 3, 300)
       ELSE second

\* classify_type up to its log lines: best_type stays None when nothing matches.
ClassifyType(text) ==
    LET first == FirstPass(TypeOrder, text.tm, TypePatternsMax, 1, Best(NoId, 0))
    IN IF first.id = NoId \/ first.confidence < 500
       THEN IF text.qmark THEN Best(1, 400)
            ELSE IF text.problem THEN Best(3, 400)
            ELSE IF text.task THEN Best(2, 400)
            ELSE IF text.service THEN Best(7, 400)
            ELSE IF text.qstart THEN Best(1, 350)
            ELSE IF text.rstart THEN Best(2, 350)
            ELSE first
       ELSE first

\* get_classification: PRIORITY_NAMES[best_priority] and TYPE_NAMES[best_type] are
\* read for the log lines of the two classify methods; a key that is missing raises
\* KeyError.
GetClassification(text) ==
    LET priority == ClassifyPriority(text)
        type == ClassifyType(text)
    IN IF priority.id \notin PriorityIds \/ type.id \notin TypeIds
       THEN [raised |-> TRUE, priority_id |-> NoId, type_id |-> NoId]
       ELSE [raised |-> FALSE, priority_id |-> priority.id, type_id |-> type.id]

\* ------------------------------------------------------------ KayakoAPIClient.create_ticket
StopAfterAttempt == 3           \* @retry(stop=stop_after_attempt(3), ...)
NetOutcomes == {"ok", "auth_fails", "post_fails"}
CallerIds == {NoId, 3}          \* priority_id and type_id as the caller set them
Tickets ==
    {[contents |-> text, priority_id |-> p, type_id |-> t] :
        text \in KTexts, p \in CallerIds, t \in {NoId, 1}}

\* The call begins: the retry wrapper runs the first attempt.
KCreateTicket(ticket) ==
    /\ kattempt = 0
    /\ kticket' = ticket
    /\ kattempt' = 1
    /\ kposts' = <<>>
    /\ kresult' = [outcome |-> "pending", attempts |-> 0,
                    caller_priority_id |-> ticket.priority_id,
                    caller_type_id |-> ticket.type_id]
    /\ kclass' = NotClassified
    /\ n_kcalls' = n_kcalls + 1
    /\ UNCHANGED <<relay, recorder, ticketing, messaging, ksession>>

CallerIdsKept(ticket, classification) ==
    [priority_id |-> IF ticket.priority_id # NoId THEN ticket.priority_id
                     ELSE classification.priority_id,
     type_id |-> IF ticket.type_id # NoId THEN ticket.type_id ELSE classification.type_id]

\* ticket.priority_id and ticket.type_id after the two assignments
ClassifiedIds(ticket, classification) ==
    [priority_id |-> classification.priority_id, type_id |-> classification.type_id]

\* The attempt raised: the wrapper retries after its wait, or gives up with
\* RetryError once stop_after_attempt is reached.
AttemptFailed ==
    IF kattempt < StopAfterAttempt
    THEN kattempt' = kattempt + 1 /\ UNCHANGED kresult
    ELSE kattempt' = 0
         /\ kresult' = [kresult EXCEPT !.outcome = "RetryError", !.attempts = kattempt]

\* One run of the body of create_ticket: headers (authenticating when there is no
\* session yet), classification, the two assignments, the POST.
KAttempt(net) ==
    /\ kattempt > 0
    /\ IF net = "auth_fails"
       THEN /\ ~ksession
            /\ AttemptFailed
            /\ UNCHANGED <<kticket, kposts, kclass, ksession>>
       ELSE LET classification == GetClassification(kticket.contents)
                ids == ClassifiedIds(kticket, classification)
            IN /\ ksession' = TRUE
               /\ kclass' = classification
               /\ IF classification.raised
                  THEN /\ AttemptFailed
                       /\ UNCHANGED <<kticket, kposts>>
                  ELSE /\ kticket' = [kticket EXCEPT !.priority_id = ids.priority_id,
                                                     !.type_id = ids.type_id]
                       /\ kposts' = Append(kposts,
                              [contents |-> kticket.contents.name,
                               priority_id |-> ids.priority_id, type_id |-> ids.type_id])
                       /\ IF net = "post_fails"
                          THEN AttemptFailed
                          ELSE /\ kattempt' = 0
                               /\ kresult' = [kresult EXCEPT !.outcome = "returned",
                                                               !.attempts = kattempt]
    /\ UNCHANGED <<relay, recorder, ticketing, messaging, n_kcalls>>

KayakoCall == n_kcalls < MaxKCalls /\ \E ticket \in Tickets : KCreateTicket(ticket)
KayakoAttempt == \E net \in NetOutcomes : KAttempt(net)
NextKayako == KayakoCall \/ KayakoAttempt
SpecKayako == Init /\ [][NextKayako]_vars

\* ------------------------------------------------------------ retries and transport errors
\* The relay with create_ticket behind its stop branch and with sends that fail.
\* The ticket of the stop branch: no priority_id, no type_id; the call has no
\* transcript.
RelayTicket == [contents |-> EmptyCall, priority_id |-> NoId, type_id |-> NoId]

\* `await kayako_client.create_ticket(ticket)` in the stop branch begins.
RelayCreateTicket ==
    /\ in_pc = "create_ticket"
    /\ n_kcalls < Len(finalizer_log)
    /\ KCreateTicket(RelayTicket)

TicketCallEnded(outcome) ==
    n_kcalls = Len(finalizer_log) /\ kattempt = 0 /\ kresult.outcome = outcome
RelayTicketCreated == TicketCallEnded("returned") /\ TicketCreated
RelayTicketFails == TicketCallEnded("RetryError") /\ TicketFails

\* A media event whose openai_ws.send raises ConnectionClosed: the connection
\* was lost after openai_ws.open was read.  No except clause of
\* receive_from_twilio takes the exception.
MediaSendFails(ts, payload) ==
    /\ InRecv
    /\ openai_open
    /\ ts >= tw_clock
    /\ n_in' = n_in + 1
    /\ last_in' = [type |-> "media", ts |-> ts, open |-> openai_open, payload |-> payload]
    /\ tw_clock' = ts
    /\ latest_media_timestamp' = ts
    /\ openai_open' = FALSE
    /\ in_pc' = "raised"
    /\ UNCHANGED <<scenario, collab, life, tools, stream_sid, last_assistant_item, mark_queue,
                   response_start_timestamp_twilio, out_pc, out_event, wires, n_out,
                   marks_pushed, marks_popped, empty_acks, interrupted, ss_pre>>

\* response.audio.delta when the telephony websocket is closed: send_json raises
\* and the `except Exception` of send_to_twilio ends the coroutine, or the server
\* drops the message and the coroutine goes on; which of the two, the web
\* framework decides.
AudioDeltaClosed(item, raises) ==
    /\ OutRecv
    /\ ~telephony_open
    /\ n_out' = n_out + 1
    /\ out_event' = [type |-> "response.audio.delta", item_id |-> item]
    /\ out_pc' = IF raises THEN "done" ELSE "delta_sent"
    /\ UNCHANGED <<scenario, collab, life, tools, session, openai_open, in_pc, wires, n_in,
                   hist>>

\* The anchor, the item id and send_mark when the telephony websocket is closed.
SendMarkClosed(raises) ==
    /\ out_pc = "delta_sent"
    /\ ~telephony_open
    /\ response_start_timestamp_twilio' =
           Anchor(response_start_timestamp_twilio, latest_media_timestamp)
    /\ last_assistant_item' =
           IF out_event.item_id # None THEN out_event.item_id ELSE last_assistant_item
    /\ out_pc' = IF stream_sid = None THEN "recv"
                 ELSE IF raises THEN "done" ELSE "mark_sent"
    /\ UNCHANGED <<scenario, collab, life, tools, stream_sid, latest_media_timestamp,
                   mark_queue, openai_open, in_pc, out_event, wires, n_in, n_out, hist>>

ErrorOutputResent ==
    /\ Dispatched("save_user_email")
    /\ ~openai_open
    /\ user_email' = IF Truthy(Item.args.value) THEN Item.args.value ELSE user_email
    /\ SendError
    /\ fc_idx' = fc_idx + 1
    /\ LoopFrame
    /\ UNCHANGED <<out_pc, reason_for_calling, kb_initialized>>

\* save_user_email when the backend connection is closed: the email is stored,
\* openai_ws.send raises, the except branch sends its error output, which raises
\* again, out of the loop and into the `except Exception` of send_to_twilio.
ToolSendFails ==
    /\ Dispatched("save_user_email")
    /\ ~openai_open
    /\ user_email' = IF Truthy(Item.args.value) THEN Item.args.value ELSE user_email
    /\ out_pc' = "done"
    /\ LoopFrame
    /\ UNCHANGED <<fc_idx, openai_out, raised, reason_for_calling, kb_initialized>>

\* response.done events that hold one save_user_email call with an email.
EmailCallItems ==
    {it \in FunctionCallItems : it.name = "save_user_email" /\ it.args.value = "a"}
EmailCallOutputs == {<<it>> : it \in EmailCallItems}
RetryMedia == telephony_open /\ n_in < MaxLifeIn /\ \E p \in Payloads : Media(0, p)
RetryMediaSendFails ==
    telephony_open /\ n_in < MaxLifeIn /\ \E p \in Payloads : MediaSendFails(0, p)
RetryAudioDelta ==
    telephony_open /\ n_out < MaxLifeOut /\ \E p \in Payloads : AudioDelta("X", p)
RetryAudioDeltaClosed ==
    n_out < MaxLifeOut /\ \E raises \in BOOLEAN : AudioDeltaClosed("X", raises)
RetrySendMark == telephony_open /\ AudioDeltaAnchor
RetrySendMarkClosed == \E raises \in BOOLEAN : SendMarkClosed(raises)
RetryEmailCalls ==
    /\ n_out < MaxDone
    /\ n_items < MaxItems
    /\ \E output \in EmailCallOutputs : ResponseDone(output)
RetrySaveUserEmail == openai_open /\ SaveUserEmail

NextRetry ==
    \/ LifeStart
    \/ RetryMedia
    \/ RetryMediaSendFails
    \/ LifeStop
    \/ RelayCreateTicket
    \/ KayakoAttempt
    \/ RelayTicketCreated
    \/ RelayTicketFails
    \/ RetryAudioDelta
    \/ RetryAudioDeltaClosed
    \/ RetrySendMark
    \/ RetrySendMarkClosed
    \/ SendMarkAppend
    \/ RetryEmailCalls
    \/ RetrySaveUserEmail
    \/ ToolSendFails
    \/ AssistantMessages
    \/ BackendClose
    \/ OutboundEnd
    \/ TelephonyDisconnect
    \/ InboundDisconnected
    \/ SessionExit
SpecRetry == Init /\ [][NextRetry]_vars

\* ------------------------------------------------------------ KayakoAPIClient, messages
MaxConversations == 2
MaxPages == 2
MaxMessages == 3
MaxMsgCalls == 5
Conversations == 1..MaxConversations
Pages == 1..MaxPages
\* per_page keeps its default, 50, which is more than MaxMessages: page 1 holds
\* every message of the conversation and the later pages are empty.
ServerPage(conversation_id, page) ==
    IF page = 1
    THEN {m.id : m \in {x \in kmessages : x.conversation_id = conversation_id}}
    ELSE {}
ConversationOf(message_id) ==
    (CHOOSE m \in kmessages : m.id = message_id).conversation_id
OnServer(message_id) == \E m \in kmessages : m.id = message_id

\* The keys f"message:{id}" and f"messages:{conversation_id}:{page}:{per_page}".
MessageKey(message_id) == <<"message", message_id, 0>>
MessagesKey(conversation_id, page) == <<"messages", conversation_id, page>>
MessageEntry(message_id, conversation_id) ==
    [key |-> MessageKey(message_id), conversation_id |-> conversation_id,
     ids |-> {message_id}]
MessagesEntry(conversation_id, page, ids) ==
    [key |-> MessagesKey(conversation_id, page), conversation_id |-> conversation_id,
     ids |-> ids]

\* TTLCache: every entry lives ttl seconds from the moment it was set, so the
\* entries expire in the order in which they were set. maxsize (200) is above the
\* number of keys there can be here, so nothing is discarded for space.
InCache(cache, key) == \E i \in DOMAIN cache : cache[i].key = key
Cached(cache, key) == cache[CHOOSE i \in DOMAIN cache : cache[i].key = key]
CacheDel(cache, key) == SelectSeq(cache, LAMBDA e : e.key # key)
CacheSet(cache, entry) == CacheDel(cache, entry.key) \o <<entry>>
Max(ids) == CHOOSE m \in ids : \A other \in ids : other <= m
\* "Cache individual messages": the loop over the response, newest message first.
RECURSIVE CacheMessages(_, _, _)
CacheMessages(cache, conversation_id, ids) ==
    IF ids = {} THEN cache
    ELSE CacheMessages(CacheSet(cache, MessageEntry(Max(ids), conversation_id)),
                       conversation_id, ids \ {Max(ids)})

\* "Invalidate conversation messages cache": every key that starts with
\* f"messages:{conversation_id}:" is deleted.
InvalidateConversation(cache, conversation_id) ==
    SelectSeq(cache, LAMBDA e : ~(e.key[1] = "messages" /\ e.key[2] = conversation_id))

MessageCallEnds(op, conversation_id, outcome, ids) ==
    /\ msg_call' = [op |-> op, conversation_id |-> conversation_id, outcome |-> outcome,
                    ids |-> ids]
    /\ n_msgcalls' = n_msgcalls + 1

\* get_messages up to its await: a cached list is returned, otherwise the GET is
\* sent and the server answers with the messages it holds now.
GetMessages(conversation_id, page) ==
    /\ get_pending = NoGet
    /\ IF InCache(message_cache, MessagesKey(conversation_id, page))
       THEN /\ MessageCallEnds("get", conversation_id, "cached",
                   Cached(message_cache, MessagesKey(conversation_id, page)).ids)
            /\ UNCHANGED get_pending
       ELSE /\ get_pending' = [conversation_id |-> conversation_id, page |-> page,
                               ids |-> ServerPage(conversation_id, page)]
            /\ UNCHANGED <<msg_call, n_msgcalls>>
    /\ UNCHANGED <<relay, recorder, ticketing, kayako, message_cache, kmessages,
                   next_message_id>>

\* get_messages after its await: the messages and then the list are cached, or the
\* response was an error and the attempt raises.
GetMessagesResponse(net) ==
    /\ get_pending # NoGet
    /\ get_pending' = NoGet
    /\ IF net = "ok"
       THEN /\ message_cache' =
                   CacheSet(CacheMessages(message_cache, get_pending.conversation_id,
                                          get_pending.ids),
                            MessagesEntry(get_pending.conversation_id, get_pending.page,
                                          get_pending.ids))
            /\ MessageCallEnds("get", get_pending.conversation_id, "fetched",
                               get_pending.ids)
       ELSE /\ MessageCallEnds("get", get_pending.conversation_id, "raised", {})
            /\ UNCHANGED message_cache
    /\ UNCHANGED <<relay, recorder, ticketing, kayako, kmessages, next_message_id>>

CreateMessage(conversation_id, net) ==
    /\ next_message_id <= MaxMessages
    /\ IF net = "ok"
       THEN /\ kmessages' = kmessages \cup {[id |-> next_message_id,
                                              conversation_id |-> conversation_id]}
            /\ next_message_id' = next_message_id + 1
            /\ message_cache' =
                   InvalidateConversation(
                       CacheSet(message_cache, MessageEntry(next_message_id, conversation_id)),
                       conversation_id)
            /\ MessageCallEnds("create", conversation_id, "ok", {next_message_id})
       ELSE /\ MessageCallEnds("create", conversation_id, "raised", {})
            /\ UNCHANGED <<kmessages, next_message_id, message_cache>>
    /\ UNCHANGED <<relay, recorder, ticketing, kayako, get_pending>>

\* update_message(message_id, message), with message.conversation_id the
\* conversation of the message.
UpdateMessage(message_id, net) ==
    /\ IF ~OnServer(message_id) /\ net = "ok"
       THEN /\ MessageCallEnds("update", NoId, "not_found", {})
            /\ UNCHANGED message_cache
       ELSE IF net = "ok"
       THEN /\ message_cache' =
                   InvalidateConversation(
                       CacheSet(message_cache,
                                MessageEntry(message_id, ConversationOf(message_id))),
                       ConversationOf(message_id))
            /\ MessageCallEnds("update", ConversationOf(message_id), "ok", {message_id})
       ELSE /\ MessageCallEnds("update", NoId, "raised", {})
            /\ UNCHANGED message_cache
    /\ UNCHANGED <<relay, recorder, ticketing, kayako, kmessages, next_message_id,
                   get_pending>>

\* What delete_message does to the cache once the DELETE succeeded.
ForgetMessage(cache, message_id) ==
    IF InCache(cache, MessageKey(message_id))
    THEN CacheDel(InvalidateConversation(cache,
                      Cached(cache, MessageKey(message_id)).conversation_id),
                  MessageKey(message_id))
    ELSE cache

DeleteMessage(message_id, net) ==
    /\ IF ~OnServer(message_id) /\ net = "ok"
       THEN /\ MessageCallEnds("delete", NoId, "not_found", {})
            /\ UNCHANGED <<message_cache, kmessages>>
       ELSE IF net = "ok"
       THEN /\ kmessages' = {m \in kmessages : m.id # message_id}
            /\ message_cache' = ForgetMessage(message_cache, message_id)
            /\ MessageCallEnds("delete", ConversationOf(message_id), "ok", {message_id})
       ELSE /\ MessageCallEnds("delete", NoId, "raised", {})
            /\ UNCHANGED <<message_cache, kmessages>>
    /\ UNCHANGED <<relay, recorder, ticketing, kayako, next_message_id, get_pending>>

\* Time passes: the entry set longest ago reaches its ttl.
Expire ==
    /\ message_cache # <<>>
    /\ message_cache' = Tail(message_cache)
    /\ UNCHANGED <<relay, recorder, ticketing, kayako, kmessages, next_message_id,
                   get_pending, msg_call, n_msgcalls>>

Responses == {"ok", "error"}
MessageIds == 1..MaxMessages
GetMessagesCall ==
    n_msgcalls < MaxMsgCalls /\ \E c \in Conversations, page \in Pages : GetMessages(c, page)
GetMessagesEnds == \E net \in Responses : GetMessagesResponse(net)
CreateMessageCall ==
    n_msgcalls < MaxMsgCalls /\ \E c \in Conversations, net \in Responses : CreateMessage(c, net)
UpdateMessageCall ==
    n_msgcalls < MaxMsgCalls /\ \E m \in MessageIds, net \in Responses : UpdateMessage(m, net)
DeleteMessageCall ==
    n_msgcalls < MaxMsgCalls /\ \E m \in MessageIds, net \in Responses : DeleteMessage(m, net)
NextMessages ==
    \/ GetMessagesCall
    \/ GetMessagesEnds
    \/ CreateMessageCall
    \/ UpdateMessageCall
    \/ DeleteMessageCall
    \/ Expire
SpecMessages == Init /\ [][NextMessages]_vars

\* ------------------------------------------------------------ properties
IsTruncate(c) == c.type = "conversation.item.truncate"
Truncates == {i \in DOMAIN openai_out : IsTruncate(openai_out[i])}
Clears == {i \in DOMAIN twilio_out : twilio_out[i].event = "clear"}
SentToBackend == Len(openai_out') = Len(openai_out) + 1
LastToBackend == openai_out'[Len(openai_out')]

\* A step in which send_to_twilio takes a speech-started event from the backend.
HandlesSpeechStarted ==
    /\ n_out' = n_out + 1
    /\ out_event'.type = "input_audio_buffer.speech_started"

\* A step in which the handling of a speech-started event ends.
SpeechHandlingCompletes ==
    /\ ss_pre'.done
    /\ \/ HandlesSpeechStarted
       \/ out_pc = "clear_sent" /\ out_pc' = "recv"

\* A step in which receive_from_twilio takes a mark event.
HandlesMark == n_in' = n_in + 1 /\ last_in'.type = "mark"

\* C1: every truncate command is sent in the step that takes the speech-started
\* event, and carries item_id = last_assistant_item, content_index 0 and
\* audio_end_ms = latest_media_timestamp - response_start_timestamp_twilio, all as
\* they are in the state in which the event is taken.
C1_TruncateCarriesElapsed ==
    [][(SentToBackend /\ IsTruncate(LastToBackend)) =>
         /\ HandlesSpeechStarted
         /\ response_start_timestamp_twilio # NoneTs
         /\ LastToBackend.item_id = last_assistant_item
         /\ LastToBackend.content_index = 0
         /\ LastToBackend.audio_end_ms =
                latest_media_timestamp - response_start_timestamp_twilio]_vars

C1_Witness == \E i \in Truncates : openai_out[i].audio_end_ms > 0

\* C2: a speech-started event taken while response_start_timestamp_twilio is None
\* is handled in that one step, which sends nothing and leaves mark_queue,
\* last_assistant_item and response_start_timestamp_twilio as they are; no handling
\* that goes on to the clear command began without an anchor.
C2_UnsetAnchorIsNoOp ==
    /\ [](out_pc \in {"truncate_sent", "clear_sent"} => ss_pre.rst # NoneTs)
    /\ [][(HandlesSpeechStarted /\ response_start_timestamp_twilio = NoneTs) =>
            /\ ss_pre'.done
            /\ UNCHANGED <<openai_out, twilio_out, mark_queue, last_assistant_item,
                           response_start_timestamp_twilio>>]_vars

C2_Witness == ss_pre.handled /\ ss_pre.done /\ ss_pre.rst = NoneTs /\ stream_sid # None

\* C3: no truncate command with a negative audio_end_ms is ever sent.
C3_NoNegativeTruncate == \A i \in Truncates : openai_out[i].audio_end_ms >= 0

\* C4 as claimed: a speech-started event handled while last_assistant_item and
\* response_start_timestamp_twilio are set with non-negative elapsed time leaves,
\* when its handling ends, mark_queue empty and both fields None, whatever the
\* number of pending marks.
C4_AlwaysBackToIdle ==
    [][(/\ SpeechHandlingCompletes
        /\ ss_pre'.item # None
        /\ ss_pre'.rst # NoneTs
        /\ ss_pre'.latest - ss_pre'.rst >= 0) =>
         /\ mark_queue' = <<>>
         /\ last_assistant_item' = None
         /\ response_start_timestamp_twilio' = NoneTs]_vars

\* C4 amended: the same, for a speech-started event handled while at least one
\* playback mark is pending.
C4_BackToIdleWithPendingMark ==
    [][(/\ SpeechHandlingCompletes
        /\ ss_pre'.item # None
        /\ ss_pre'.rst # NoneTs
        /\ ss_pre'.latest - ss_pre'.rst >= 0
        /\ ss_pre'.marks >= 1) =>
         /\ mark_queue' = <<>>
         /\ last_assistant_item' = None
         /\ response_start_timestamp_twilio' = NoneTs]_vars

C4_Witness ==
    /\ ss_pre.done /\ ss_pre.item # None /\ ss_pre.rst # NoneTs
    /\ ss_pre.latest - ss_pre.rst > 0 /\ ss_pre.marks >= 2
    /\ interrupted /\ out_pc = "recv" /\ mark_queue = <<>>

\* C5: in the call start(A), media 0, 20, 40, audio delta for item X anchored at 40,
\* speech-started taken while latest_media_timestamp is 40: once the handling has
\* ended, the one truncate command sent is truncate(X, 0, audio_end_ms 0), the one
\* clear command sent is clear(A), and mark_queue is empty.
ScenarioC5 ==
    [tin |-> << [type |-> "start", sid |-> "A"], [type |-> "media", ts |-> 0],
                [type |-> "media", ts |-> 20], [type |-> "media", ts |-> 40] >>,
     tout |-> << [type |-> "response.audio.delta", item_id |-> "X"],
                 [type |-> "input_audio_buffer.speech_started"] >>]

C5_Played ==
    /\ scenario = ScenarioC5
    /\ n_out = 2 /\ out_pc = "recv"
    /\ ss_pre.handled /\ ss_pre.rst = 40 /\ ss_pre.latest = 40

C5_ScenarioTruncatesAtZero ==
    C5_Played =>
        /\ {openai_out[i] : i \in Truncates} =
               {[type |-> "conversation.item.truncate", item_id |-> "X",
                 content_index |-> 0, audio_end_ms |-> 0]}
        /\ Cardinality(Truncates) = 1
        /\ {twilio_out[i] : i \in Clears} = {[event |-> "clear", streamSid |-> "A"]}
        /\ Cardinality(Clears) = 1
        /\ mark_queue = <<>>

C5_Witness == C5_Played /\ ss_pre.done /\ Truncates # {} /\ Clears # {}

\* The commands sent to the backend since the response.done in hand was taken.
SentInBatch == {j \in DOMAIN openai_out : j > batch_start}
Creates == {j \in SentInBatch : openai_out[j].type = "response.create"}
OutputsFor(call_id) ==
    {j \in SentInBatch : /\ openai_out[j].type = "conversation.item.create"
                         /\ openai_out[j].call_id = call_id}
ErrorsFor(call_id) == {j \in OutputsFor(call_id) : openai_out[j].output.key = "error"}
Calls == {i \in DOMAIN batch : IsCall(batch[i])}
BatchDone == n_out >= 1 /\ out_pc = "recv" /\ out_event.type = "response.done"

\* C6: once a response.done with k >= 1 function calls has been handled, exactly
\* one response.create was sent for it, after the function_call_output of every
\* one of its calls.  Stated for the outputs all of whose calls name a registered
\* tool with arguments that parse, the case in which every call runs its handler.
C6_OneResponseCreatePerBatch ==
    (/\ BatchDone
     /\ Calls # {}
     /\ \A i \in Calls : Parses(batch[i]) /\ batch[i].name \in ToolNames) =>
        /\ Cardinality(Creates) = 1
        /\ \A i \in Calls : \A c \in Creates :
               \E j \in OutputsFor(batch[i].call_id) : j < c

\* C7: once a response.done has been handled, every function call dispatched from
\* it (its arguments parsed) whose name is no registered tool has a
\* function_call_output with its call_id carrying an error; send_to_twilio is
\* then receiving again.
C7_UnknownToolGetsError ==
    BatchDone =>
        \A i \in Calls : (Parses(batch[i]) /\ batch[i].name \notin ToolNames) =>
            ErrorsFor(batch[i].call_id) # {}

\* C8: once a response.done has been handled, every function call in it whose
\* handler raised, or whose argument string did not parse, has a
\* function_call_output with its call_id carrying an error; send_to_twilio is
\* then receiving again.
C8_FailedCallGetsError ==
    BatchDone =>
        \A i \in Calls : (batch[i].call_id \in raised \/ ~Parses(batch[i])) =>
            ErrorsFor(batch[i].call_id) # {}

\* The marks pushed as numbers from+1 .. to, in push order.
PushedMarks(from, to) ==
    [i \in 1..(to - from) |-> [name |-> "responsePart", n |-> from + i]]

C10_LatestIsLastMedia ==
    last_in.type = "media" => latest_media_timestamp = last_in.ts

\* C10 amended: a media event processed while the AI-backend connection is open
\* sets latest_media_timestamp to its timestamp; one processed after the connection
\* has closed leaves latest_media_timestamp unchanged.
C10_LatestIsLastMediaWhileOpen ==
    /\ []((last_in.type = "media" /\ last_in.open) => latest_media_timestamp = last_in.ts)
    /\ [][(n_in' = n_in + 1 /\ last_in'.type = "media" /\ ~openai_open) =>
            UNCHANGED latest_media_timestamp]_vars

C10_Witness ==
    /\ last_in.type = "media" /\ last_in.open /\ last_in.ts = 40
    /\ latest_media_timestamp = 40 /\ n_in = 3

\* ------------------------------------------------------------ call lifecycle properties
InboundEnded == in_pc \in {"done", "raised"}
OutboundEnded == out_pc = "done"
CallTornDown == InboundEnded /\ OutboundEnded /\ ~telephony_open /\ ~openai_open

\* C11: once either pump has ended, eventually both pumps have ended and both the
\* telephony connection and the AI-backend connection are closed.
C11_PumpsEndTogether == (InboundEnded \/ OutboundEnded) ~> CallTornDown

\* The stop events handled so far: each one made one create_ticket call.
StopsHandled == Len(finalizer_log)
TicketFailures == {i \in DOMAIN finalizer_log : finalizer_log[i].outcome = "failed"}

\* C12: a stop event makes the Inbound Pump call create_ticket and then end: once
\* a stop event has been handled the pump is in the ticket call or has ended, it
\* takes no further telephony event, and create_ticket is called at most once in
\* the call.
C12_StopEndsInbound ==
    /\ [](StopsHandled >= 1 => (in_pc = "create_ticket" \/ InboundEnded))
    /\ [][StopsHandled >= 1 => n_in' = n_in]_vars
    /\ [](StopsHandled <= 1)

\* C13: whenever create_ticket has failed, the transcript was printed and the
\* failure left the stop branch as an exception (the Inbound Pump ended by raising).
C13_TicketFailureReRaised ==
    \A i \in TicketFailures : finalizer_log[i].transcript_printed /\ in_pc = "raised"

\* A step in which receive_from_twilio takes a malformed message.
TakesMalformedTelephony == n_in' = n_in + 1 /\ last_in'.type = "malformed"

\* C14: a malformed telephony message changes no session state and leaves the
\* Inbound Pump receiving.
C14_MalformedTelephonySkipped ==
    [][TakesMalformedTelephony => (UNCHANGED session /\ in_pc' = "recv")]_vars

\* A step in which send_to_twilio takes a malformed message.
TakesMalformedBackend == n_out' = n_out + 1 /\ out_event'.type = "malformed"

\* C15: a malformed AI-backend message leaves the Outbound Pump receiving.
C15_MalformedBackendSkipped == [][TakesMalformedBackend => out_pc' = "recv"]_vars

\* ------------------------------------------------------------ session state properties
\* A step in which receive_from_twilio takes a start event.
HandlesStart == n_in' = n_in + 1 /\ last_in'.type = "start"

\* C16: the step that takes a start event leaves stream_sid equal to the event's
\* streamSid, latest_media_timestamp 0, response_start_timestamp_twilio None and
\* last_assistant_item None.
C16_StartResetsSession ==
    [][HandlesStart =>
         /\ stream_sid' = last_in'.sid
         /\ latest_media_timestamp' = 0
         /\ response_start_timestamp_twilio' = NoneTs
         /\ last_assistant_item' = None]_vars

\* The step of the audio-delta handling that follows the media command: the anchor
\* and the item id are assigned and send_mark is entered.
AnchorStep == out_pc = "delta_sent" /\ out_pc' # "delta_sent"

\* The response last recorded has played out with no interruption: its item is
\* still recorded and every playback mark has been acknowledged.
PreviousResponsePlayedOut ==
    last_assistant_item # None /\ marks_pushed >= 1 /\ mark_queue = <<>>

\* C17: the first audio delta of a response (an item id other than the recorded one)
\* that arrives after the previous response has played out with no interruption
\* anchors response_start_timestamp_twilio to latest_media_timestamp as it is then.
C17_FirstDeltaAnchorsResponse ==
    [][(/\ AnchorStep
        /\ out_event.item_id # None
        /\ out_event.item_id # last_assistant_item
        /\ PreviousResponsePlayedOut) =>
         response_start_timestamp_twilio' = latest_media_timestamp]_vars

\* C18: last_assistant_item is set only while response_start_timestamp_twilio is set.
C18_ItemOnlyWithAnchor ==
    last_assistant_item # None => response_start_timestamp_twilio # NoneTs

C18_Witness ==
    /\ interrupted /\ out_pc = "recv"
    /\ last_assistant_item # None /\ response_start_timestamp_twilio # NoneTs

TakesAudioDelta == n_out' = n_out + 1 /\ out_event'.type = "response.audio.delta"
SentToTelephony == Len(twilio_out') = Len(twilio_out) + 1
LastToTelephony == twilio_out'[Len(twilio_out')]
MarkPushStep == out_pc = "mark_sent" /\ out_pc' # "mark_sent"
MediaCmds == {i \in DOMAIN twilio_out : twilio_out[i].event = "media"}
MarkCmds == {i \in DOMAIN twilio_out : twilio_out[i].event = "mark"}

\* The media command of an audio delta: sent in the step that takes the delta,
\* tagged with stream_sid as it is then, and sent by no other step.
OneMediaPerDelta ==
    /\ [][TakesAudioDelta =>
            /\ SentToTelephony
            /\ LastToTelephony.event = "media"
            /\ LastToTelephony.streamSid = stream_sid]_vars
    /\ [][(SentToTelephony /\ LastToTelephony.event = "media") => TakesAudioDelta]_vars

\* The item id a delta carries becomes last_assistant_item.
DeltaRecordsItem ==
    [][(AnchorStep /\ out_event.item_id # None) =>
         last_assistant_item' = out_event.item_id]_vars

\* C19 as claimed: every audio delta, with or without a stream id set, sends one
\* media command, records its item id, sends one mark command and pushes one
\* entry onto mark_queue.
C19_EveryDeltaMarked ==
    /\ OneMediaPerDelta
    /\ DeltaRecordsItem
    /\ [][AnchorStep =>
            /\ SentToTelephony
            /\ LastToTelephony.event = "mark"
            /\ out_pc' = "mark_sent"]_vars
    /\ [][MarkPushStep => Len(mark_queue') = Len(mark_queue) + 1]_vars
    /\ [](out_pc = "recv" =>
            /\ Cardinality(MarkCmds) = Cardinality(MediaCmds)
            /\ marks_pushed = Cardinality(MediaCmds))

\* C19 amended: every audio delta sends one media command tagged with stream_sid
\* and records its item id; if stream_sid is set when the handling goes on after
\* the media command, one mark command tagged with it is sent and then one entry
\* is pushed onto mark_queue; if stream_sid is not set, no mark command is sent
\* and nothing is pushed.
C19_DeltaMarkedWhenStreamIdSet ==
    /\ OneMediaPerDelta
    /\ DeltaRecordsItem
    /\ [][AnchorStep =>
            IF stream_sid # None
            THEN /\ SentToTelephony
                 /\ LastToTelephony =
                        [event |-> "mark", streamSid |-> stream_sid, name |-> "responsePart"]
                 /\ out_pc' = "mark_sent"
                 /\ UNCHANGED mark_queue
            ELSE /\ UNCHANGED <<twilio_out, mark_queue>>
                 /\ out_pc' = "recv"]_vars
    /\ [][MarkPushStep =>
            /\ Len(mark_queue') = Len(mark_queue) + 1
            /\ SubSeq(mark_queue', 1, Len(mark_queue)) = mark_queue
            /\ out_pc' = "recv"
            /\ UNCHANGED twilio_out]_vars
    /\ [](marks_pushed = Cardinality(MarkCmds) - (IF out_pc = "mark_sent" THEN 1 ELSE 0))

C19_Witness ==
    /\ out_pc = "recv" /\ stream_sid # None /\ last_assistant_item = "X"
    /\ \E i \in MediaCmds : twilio_out[i].streamSid = None
    /\ \E i \in MediaCmds : twilio_out[i].streamSid # None
    /\ Cardinality(MarkCmds) = 1 /\ marks_pushed = 1 /\ Len(mark_queue) = 1

\* C20: while a speech-started event is being handled (from the check of the
\* session state to the clearing of it) the Inbound Pump takes no event, so that
\* the state cleared is the state that was checked.
C20_InterruptionIsAtomic ==
    /\ [][(out_pc \in {"truncate_sent", "clear_sent"}) => n_in' = n_in]_vars
    /\ [][(out_pc = "clear_sent" /\ out_pc' = "recv") =>
            /\ Len(mark_queue) = ss_pre.marks
            /\ latest_media_timestamp = ss_pre.latest
            /\ last_assistant_item = ss_pre.item
            /\ response_start_timestamp_twilio = ss_pre.rst]_vars

\* ------------------------------------------------------------ tool call properties
\* A step in which receive_from_twilio takes a media event.
TakesMedia == n_in' = n_in + 1 /\ last_in'.type = "media"

\* C21: while send_to_twilio awaits search_and_summarize it takes no backend event
\* and leaves the response.done in hand as it is; receive_from_twilio can take a
\* media event then, and a media event it takes sets latest_media_timestamp,
\* forwards the payload and leaves the tool call waiting.
C21_ToolCallBlocksOutboundOnly ==
    /\ [][(out_pc = "kb_search") => (n_out' = n_out /\ UNCHANGED <<batch, out_event>>)]_vars
    /\ []((out_pc = "kb_search" /\ n_in < MaxToolIn) => ENABLED ToolCallMedia)
    /\ [][(out_pc = "kb_search" /\ TakesMedia) =>
            /\ latest_media_timestamp' = last_in'.ts
            /\ openai_out' = Append(openai_out, [type |-> "input_audio_buffer.append",
                                                 audio |-> last_in'.payload])
            /\ out_pc' = "kb_search"
            /\ UNCHANGED fc_idx]_vars

\* The tool call of the first output item is waiting and a media event taken since
\* the response.done was received has been forwarded.
C21_Witness ==
    /\ out_pc = "kb_search" /\ fc_idx = 1
    /\ Len(openai_out) > batch_start
    /\ openai_out[Len(openai_out)].type = "input_audio_buffer.append"
    /\ last_in.type = "media" /\ latest_media_timestamp = 40

\* A step in which the first loop runs the handler of the named tool.
RunsHandler(name) == Dispatched(name) /\ fc_idx' = fc_idx + 1

\* The success output of a handler, then response.create, are what the step sends.
SendsSuccess(text) ==
    openai_out' = openai_out \o
        << [type |-> "conversation.item.create", item_type |-> "function_call_output",
            call_id |-> Item.call_id, output |-> [key |-> "result", value |-> text]],
           [type |-> "response.create"] >>

\* C22: save_user_email (set_reason_for_calling) with a non-empty value stores it
\* whatever was stored before; with a missing or empty value it leaves the stored
\* value as it is; with the value already stored it changes nothing of the
\* conversation; in every case it sends its success output.
C22_HandlersIdempotent ==
    /\ [][RunsHandler("save_user_email") =>
            /\ (Item.args.value \notin {None, ""} => user_email' = Item.args.value)
            /\ (Item.args.value \in {None, ""} => user_email' = user_email)
            /\ (Item.args.value = user_email => UNCHANGED conversation)
            /\ SendsSuccess("Email saved successfully.")
            /\ UNCHANGED <<reason_for_calling, transcript, session>>]_vars
    /\ [][RunsHandler("set_reason_for_calling") =>
            /\ (Item.args.value \notin {None, ""} => reason_for_calling' = Item.args.value)
            /\ (Item.args.value \in {None, ""} => reason_for_calling' = reason_for_calling)
            /\ (Item.args.value = reason_for_calling => UNCHANGED conversation)
            /\ SendsSuccess("Reason for calling saved successfully.")
            /\ UNCHANGED <<user_email, transcript, session>>]_vars

\* save_user_email was invoked with "a" and then with "b": "b" is stored and both
\* invocations were answered.
C22_Witness ==
    /\ BatchDone /\ Len(batch) = 2
    /\ \A i \in {1, 2} : batch[i].name = "save_user_email" /\ Parses(batch[i])
    /\ batch[1].args.value = "a" /\ batch[2].args.value = "b"
    /\ user_email = "b"
    /\ \A i \in {1, 2} : Cardinality(OutputsFor(batch[i].call_id)) = 1

\* ------------------------------------------------------------ relay properties
\* Commands sent to the backend stay sent, in their places.
BackendLogGrows ==
    \A i \in DOMAIN openai_out : i \in DOMAIN openai_out' /\ openai_out'[i] = openai_out[i]

\* C23: a media event taken while the AI-backend connection is open adds exactly
\* one input_audio_buffer.append carrying its payload at the end of what was sent
\* to the backend; no other step sends an append, and nothing already sent is
\* removed or moved.
C23_MediaForwardedInOrder ==
    /\ [][(TakesMedia /\ openai_open) =>
            openai_out' = Append(openai_out, [type |-> "input_audio_buffer.append",
                                              audio |-> last_in'.payload])]_vars
    /\ [][(SentToBackend /\ LastToBackend.type = "input_audio_buffer.append") =>
            (TakesMedia /\ openai_open)]_vars
    /\ [][BackendLogGrows]_vars

C23_Witness ==
    /\ openai_open /\ Len(openai_out) = 3
    /\ openai_out[1].audio = "q" /\ openai_out[2].audio = "p" /\ openai_out[3].audio = "q"
    /\ last_in.type = "media" /\ last_in.payload = "q"

\* C24: a speech-started event taken while last_assistant_item is None is handled
\* in that one step: nothing is sent to the backend or to telephony and mark_queue,
\* response_start_timestamp_twilio and latest_media_timestamp are unchanged.
C24_NoItemNoInterruption ==
    [][(HandlesSpeechStarted /\ last_assistant_item = None) =>
         /\ UNCHANGED <<openai_out, twilio_out, mark_queue, response_start_timestamp_twilio,
                        latest_media_timestamp, last_assistant_item>>
         /\ out_pc' = "recv"
         /\ ss_pre'.done]_vars

\* A speech-started event was taken with no item recorded while a mark was pending
\* and the anchor was set; no truncate and no clear were ever sent.
C24_Witness ==
    /\ ss_pre.handled /\ ss_pre.done /\ ss_pre.item = None
    /\ ss_pre.marks >= 1 /\ ss_pre.rst # NoneTs
    /\ Truncates = {} /\ Clears = {}

\* C30: in an interruption handling the truncate command is sent first (in the step
\* that takes the event), the clear command next, tagged with stream_sid, and
\* mark_queue, last_assistant_item and response_start_timestamp_twilio are reset
\* only in the step after the clear command; every clear command follows the
\* truncate command of its handling.
C30_TruncateThenClearThenReset ==
    /\ [](Cardinality(Truncates) =
              Cardinality(Clears) + (IF out_pc = "truncate_sent" THEN 1 ELSE 0))
    /\ [][(SentToTelephony /\ LastToTelephony.event = "clear") =>
            /\ out_pc = "truncate_sent"
            /\ \E i \in Truncates : openai_out[i].item_id = ss_pre.item
            /\ LastToTelephony.streamSid = stream_sid
            /\ stream_sid # None]_vars
    /\ [][(HandlesSpeechStarted \/ out_pc = "truncate_sent") =>
            UNCHANGED <<last_assistant_item, response_start_timestamp_twilio>>]_vars
    /\ [][((HandlesSpeechStarted \/ out_pc = "truncate_sent") /\ n_in' = n_in) =>
            UNCHANGED mark_queue]_vars
    /\ [][(last_assistant_item # None /\ last_assistant_item' = None) =>
            (out_pc = "clear_sent" /\ mark_queue' = <<>>
             /\ response_start_timestamp_twilio' = NoneTs)]_vars

C30_Witness ==
    /\ interrupted /\ out_pc = "recv" /\ ss_pre.done
    /\ Cardinality(Truncates) = 1 /\ Cardinality(Clears) = 1
    /\ \E i \in Clears : twilio_out[i].streamSid = "A"
    /\ last_in.type = "media"

\* ------------------------------------------------------------ recorder properties
\* A step that is a call of close().
ClosesRecorder == n_rec' = n_rec + 1 /\ rec_call'.op = "close"

\* C25: close() on a recorder with no segment returns None, whatever the file
\* system would do, and writes nothing: neither conversation.wav nor
\* recording_info.json exists afterwards.
C25_EmptyCloseReturnsNone ==
    [][(ClosesRecorder /\ segments = <<>>) =>
         /\ close_result' = ReturnsNone
         /\ wav_file' = NoFile
         /\ ~metadata_written'
         /\ segments' = <<>>]_vars

\* close() was called after a chunk that did not decode: nothing was captured.
C25_Witness ==
    /\ rec_call.op = "close" /\ rec_call.io = "ok" /\ n_rec = 2
    /\ pre_close = <<>> /\ segments = <<>>
    /\ close_result = ReturnsNone /\ wav_file = NoFile /\ ~metadata_written

\* The segments at which a run of one role starts.
RunStarts(segs) == {i \in 1..Len(segs) : i = 1 \/ segs[i].role # segs[i - 1].role}
NthRunStart(segs, k) ==
    CHOOSE b \in RunStarts(segs) : Cardinality({c \in RunStarts(segs) : c <= b}) = k
SortedByTimestamp(segs) ==
    \A i, j \in 1..Len(segs) : i < j => segs[i].timestamp <= segs[j].timestamp
SameSegments(a, b) ==
    /\ Len(a) = Len(b)
    /\ \A i \in 1..Len(a) :
           Cardinality({j \in 1..Len(a) : a[j] = a[i]}) =
           Cardinality({j \in 1..Len(b) : b[j] = a[i]})

\* C26: close() on a recorder with at least one segment leaves the same segments
\* ordered by timestamp and, unless writing a file fails, returns a manifest whose
\* utterances are the maximal runs of one role in that order: as many utterances
\* as runs, the k-th with the role and the start time of the k-th run.
C26_OneUtterancePerRun ==
    [][(ClosesRecorder /\ segments # <<>>) =>
         /\ SortedByTimestamp(segments')
         /\ SameSegments(segments, segments')
         /\ (close_result'.returned = "manifest") = (rec_call'.io = "ok")
         /\ close_result'.returned = "manifest" =>
              LET u == close_result'.utterances
              IN /\ Len(u) = Cardinality(RunStarts(segments'))
                 /\ \A k \in 1..Len(u) :
                        /\ u[k].role = segments'[NthRunStart(segments', k)].role
                        /\ u[k].start_time =
                               IsoFormat(segments'[NthRunStart(segments', k)].timestamp)]_vars

\* Three segments captured out of timestamp order were sorted into user,
\* assistant, user and gave three utterances.
C26_Witness ==
    /\ rec_call.op = "close" /\ close_result.returned = "manifest"
    /\ pre_close # segments
    /\ Len(segments) = 3
    /\ [k \in 1..Len(close_result.utterances) |-> close_result.utterances[k].role] =
           <<"user", "assistant", "user">>

\* ------------------------------------------------------------ knowledge base properties
\* A step in which the awaited search_and_summarize returns to the tool dispatch.
SearchReturns == out_pc = "kb_search" /\ out_pc' # "kb_search"
\* The search gave no usable summary: it raised, found no article, its best match
\* scored below the threshold, or generate_summary raised.
NoUsableSummary(o) ==
    \/ o.search \in {"raises", "empty"}
    \/ o.score < ScoreThreshold
    \/ o.content = "raises"

\* C27: when the search gives no usable summary, search_and_summarize returns None
\* and the tool sends the function_call_output of the call with the fallback text
\* as its result, then response.create, and goes on with the next output item; no
\* error output is sent for the call.
C27_NoSummaryGivesFallback ==
    [][(SearchReturns /\ NoUsableSummary(kb_last')) =>
         /\ SearchAndSummarize(kb_last') = None
         /\ openai_out' = openai_out \o
                <<FunctionOutput(Item.call_id, NoInformation), ResponseCreate>>
         /\ Item.call_id \notin raised'
         /\ out_pc' = "function_calls"
         /\ fc_idx' = fc_idx + 1]_vars

\* A search whose best match scored below the threshold was answered with the
\* fallback text and the response request, and the response.done was finished.
C27_Witness ==
    /\ kb_last = LowScore
    /\ out_pc = "recv"
    /\ Len(openai_out) >= 2
    /\ openai_out[Len(openai_out)] = ResponseCreate
    /\ openai_out[Len(openai_out) - 1].item_type = "function_call_output"
    /\ openai_out[Len(openai_out) - 1].output = [key |-> "result", value |-> NoInformation]

\* ------------------------------------------------------------ transcript properties
\* The step that ends the handling of a response.done.
FinishesResponse == out_pc = "function_calls" /\ out_pc' = "recv"
\* An assistant message item whose text is not empty and not only whitespace.
IsSpoken(it) == it.kind = "message" /\ it.text \notin {"", " "}
Spoken(items) == SelectSeq(items, IsSpoken)
Answered(i) ==
    \E j \in (batch_start + 1)..Len(openai_out) :
        /\ openai_out[j].type = "conversation.item.create"
        /\ openai_out[j].call_id = batch[i].call_id

\* C28: the handling of a response.done ends by appending, for each assistant
\* message of the event whose text is not blank, one message with role assistant
\* and that text, in the order of the event and after every function call of the
\* event was answered; the partial-response buffer is empty afterwards; and every
\* step leaves the messages already in the transcript where and as they were.
C28_AssistantMessageAppended ==
    /\ [][FinishesResponse =>
            /\ fc_idx > Len(batch)
            /\ \A i \in 1..Len(batch) : (IsCall(batch[i]) /\ Parses(batch[i])) => Answered(i)
            /\ transcript' = transcript \o
                   [k \in 1..Len(Spoken(batch)) |->
                       [role |-> "assistant", content |-> Spoken(batch)[k].text]]
            /\ current_assistant_response' = <<>>]_vars
    /\ [][/\ Len(transcript') >= Len(transcript)
          /\ SubSeq(transcript', 1, Len(transcript)) = transcript]_vars

\* A response.done with a function call and an assistant message was finished after
\* a user message and a part of the assistant's text.
C28_Witness ==
    /\ out_pc = "recv" /\ n_out = 3
    /\ Len(batch) = 2 /\ IsCall(batch[1]) /\ batch[2].kind = "message"
    /\ transcript = <<[role |-> "user", content |-> "hello"],
                      [role |-> "assistant", content |-> "bye"]>>
    /\ current_assistant_response = <<>>
    /\ reason_for_calling = "a"

\* ------------------------------------------------------------ ticket properties
\* A step that is a call of TicketManager.create_ticket.
CreatesTicket == n_tickets' = n_tickets + 1
\* A string that has the shape local@domain.tld, tld of two or more letters, with
\* nothing around it but a newline at its end.
WellFormedEmail(arg) ==
    arg \in {Str(<<"a", "@", "b", ".", "c", "o">>),
             Str(<<"a", ".", "b", "+", "1", "@", "b", "-", "c", ".", "c", "o", ".", "o", "m">>),
             Str(<<"a", "@", "b", ".", "c", "o", "\n">>)}
\* A string of 10 to 15 digits once separators and a leading + are taken away.
WellFormedPhone(arg) ==
    arg \in {Str(TenDigits), Str(<<"+", "1">> \o TenDigits),
             Str(<<"(", "5", "5", "5", ")", " ", "1", "2", "3", "-", "4", "5", "6", "7">>)}
Rejected(email, phone) ==
    \/ ~Provided(email) /\ ~Provided(phone)
    \/ Provided(email) /\ ~WellFormedEmail(email)
    \/ Provided(phone) /\ ~WellFormedPhone(phone)

\* C29: create_ticket called with neither an email nor a phone, or with an email
\* or a phone that is malformed, ends with ValueError and has made no call on the
\* ticketing API: no user lookup, no user creation, no ticket submission.
C29_InvalidContactRaisesFirst ==
    [][(CreatesTicket /\ Rejected(create_result'.email, create_result'.phone)) =>
         /\ create_result'.outcome = "ValueError"
         /\ api_calls' = api_calls]_vars

\* A call with a malformed email and a valid phone ended with ValueError after an
\* earlier call had gone through to the ticket submission.
C29_Witness ==
    /\ n_tickets = 2
    /\ create_result.outcome = "ValueError"
    /\ create_result.email = Str(<<"a", "@", "b">>)
    /\ create_result.phone = Str(TenDigits)
    /\ api_calls = <<"get_user_by_email", "create_ticket">>

\* ------------------------------------------------------------ function output properties
\* C31: once a response.done has been handled, every function-call item of it has
\* exactly one function_call_output with its call_id among the commands sent for
\* the event, and these outputs were sent in the order of the items.
C31_OneOutputPerCall ==
    BatchDone =>
        /\ \A i \in Calls : Cardinality(OutputsFor(batch[i].call_id)) = 1
        /\ \A i, k \in Calls : i < k =>
               \A j \in OutputsFor(batch[i].call_id), l \in OutputsFor(batch[k].call_id) :
                   j < l

\* ------------------------------------------------------------ frame log properties
\* A step that is a call of add_audio_chunk.
AddsChunk == n_rec' = n_rec + 1 /\ rec_call'.op = "add"
\* One character of base64 data is no encoding of any bytes.
Undecodable(audio_payload) == audio_payload = "a"

\* C32: add_audio_chunk with a payload that does not decode returns with segments
\* unchanged; with a payload that decodes it appends one segment after the ones
\* already held, which keep their places; no call of add_audio_chunk does
\* anything else to segments.
C32_UndecodableFrameSkipped ==
    [][AddsChunk =>
         /\ Undecodable(rec_call'.payload) => segments' = segments
         /\ ~Undecodable(rec_call'.payload) =>
              /\ Len(segments') = Len(segments) + 1
              /\ SubSeq(segments', 1, Len(segments)) = segments
              /\ segments'[Len(segments')].audio_data # DecodeError]_vars

\* Three calls of add_audio_chunk and no close: one payload did not decode, the
\* two others are held, the later one appended after the skipped call.
C32_Witness ==
    /\ n_rec = 3 /\ close_result = NotClosed
    /\ rec_call.op = "add" /\ ~Undecodable(rec_call.payload)
    /\ Len(segments) = 2

\* ------------------------------------------------------------ manifest properties
\* datetime.fromisoformat of a time written by isoformat.
FromIso(text) == text[2]

\* C38: in the manifest close() returned, consecutive utterances have different
\* roles, each utterance but the last ends when the next starts, no utterance
\* starts later than it ends, and the start times never decrease.
C38_UtterancesChain ==
    close_result.returned = "manifest" =>
        LET u == close_result.utterances
        IN /\ \A k \in 1..(Len(u) - 1) :
                  /\ u[k].role # u[k + 1].role
                  /\ u[k].end_time = u[k + 1].start_time
                  /\ FromIso(u[k].start_time) <= FromIso(u[k + 1].start_time)
           /\ \A k \in 1..Len(u) : FromIso(u[k].start_time) <= FromIso(u[k].end_time)

\* ------------------------------------------------------------ classification properties
\* C33: whenever get_classification has been called, it returned, with a priority
\* id in 1..4 and a type id in 1..7, so no attempt of create_ticket has failed in
\* the classification.
C33_ClassificationTotal ==
    kclass # NotClassified =>
        /\ ~kclass.raised
        /\ kclass.priority_id \in 1..4
        /\ kclass.type_id \in 1..7

\* A step of create_ticket that POSTs the ticket.
Submits == Len(kposts') = Len(kposts) + 1

\* C37: every POST of create_ticket carries the priority id and the type id the
\* classifier computes from the contents of the ticket, whatever ids the ticket
\* held before, and the ticket object holds these two ids afterwards.
C37_ClassifierIdsSubmitted ==
    [][Submits =>
         LET post == kposts'[Len(kposts')]
             classification == GetClassification(kticket.contents)
         IN /\ post.priority_id = classification.priority_id
            /\ post.type_id = classification.type_id
            /\ kticket' = [contents |-> kticket.contents,
                           priority_id |-> classification.priority_id,
                           type_id |-> classification.type_id]]_vars

\* The ticket of the test, passed with priority_id 3, was submitted with priority
\* id 2 and type id 2, and holds them.
C37_Witness ==
    /\ kresult.outcome = "returned"
    /\ kresult.caller_priority_id = 3 /\ kresult.caller_type_id = NoId
    /\ kposts = <<[contents |-> "test_ticket", priority_id |-> 2, type_id |-> 2]>>
    /\ kticket = [contents |-> TestTicket, priority_id |-> 2, type_id |-> 2]

\* ------------------------------------------------------------ message cache properties
\* A step in which create_message, update_message or delete_message succeeds.
WriteSucceeds ==
    /\ n_msgcalls' = n_msgcalls + 1
    /\ msg_call'.op \in {"create", "update", "delete"}
    /\ msg_call'.outcome = "ok"

\* C36: when create_message, update_message or delete_message has succeeded for a
\* message of a conversation, the cache holds no get_messages result of that
\* conversation, for any page.
C36_WriteInvalidatesLists ==
    [][WriteSucceeds =>
         \A page \in Pages :
            ~InCache(message_cache', MessagesKey(msg_call'.conversation_id, page))]_vars

\* ------------------------------------------------------------ acknowledged marks properties
\* C35: when telephony has acknowledged every mark it was sent, no interruption
\* has happened and no send_mark is in progress, mark_queue is empty.
C35_AcknowledgedMarksLeaveQueueEmpty ==
    (MarksAcknowledged = MarksSent /\ out_pc # "mark_sent" /\ ~interrupted) =>
        mark_queue = <<>>

\* ------------------------------------------------------------ retry properties
LastFinal == finalizer_log[Len(finalizer_log)]

\* C34: one call of create_ticket makes at most 3 attempts, ends at the first
\* attempt that returns, and ends with RetryError after 3 failed attempts, which the
\* stop branch receives as the failure of its one call; the relay sends no command
\* on a connection that is closed, and a pump that a failed send has ended stays
\* ended.
C34_RetriesOnlyInCollaborator ==
    /\ [](kattempt <= 3 /\ Len(kposts) <= 3 /\ n_kcalls <= Len(finalizer_log))
    /\ [](kresult.outcome = "returned" =>
             /\ kresult.attempts \in 1..3
             /\ kposts # <<>>)
    /\ [](kresult.outcome = "RetryError" => kresult.attempts = 3)
    /\ [][(kattempt = 0 /\ n_kcalls' = n_kcalls) => UNCHANGED <<kattempt, kposts, kresult>>]_vars
    /\ [][(in_pc = "create_ticket" /\ in_pc' = "recv") =>
            /\ kattempt = 0
            /\ (LastFinal'.outcome = "created") = (kresult.outcome = "returned")
            /\ (LastFinal'.outcome = "failed") = (kresult.outcome = "RetryError")]_vars
    /\ [][(~openai_open) => openai_out' = openai_out]_vars
    /\ [][(~telephony_open) => twilio_out' = twilio_out]_vars
    /\ [][(out_pc = "done") => (out_pc' = "done" /\ twilio_out' = twilio_out)]_vars
    /\ [][(in_pc = "raised") => in_pc' = "raised"]_vars

\* The first ticket call failed after 3 attempts, the second returned at its
\* second attempt, and the send of a tool output failed on the closed backend
\* connection: the email is stored and nothing was sent.
C34_Witness ==
    /\ Len(finalizer_log) = 2
    /\ finalizer_log[1].outcome = "failed"
    /\ finalizer_log[2].outcome = "created"
    /\ kresult.outcome = "returned" /\ kresult.attempts = 2 /\ Len(kposts) = 2
    /\ out_pc = "done" /\ ~openai_open /\ user_email = "a" /\ openai_out = <<>>
====
